---- MODULE Spec2Model ----
(***************************************************************************)
(* Model of the text chunking, pixel wrapping, text rendering and overlay  *)
(* timeline code of RedditVideoMakerBot                                    *)
(* (video_creation/text_image_generator.py, video_creation/final_video.py).*)
(*                                                                         *)
(* Strings are sequences of one-character strings, so that str.split,      *)
(* str.join, textwrap.wrap and the font metrics are computed character by  *)
(* character as the Python code computes them.                             *)
(***************************************************************************)
EXTENDS Integers, Sequences, FiniteSets, TLC

VARIABLES
    \* create_dynamic_word_chunks: the last call and what it returned
    text, words_per_chunk, chunks, chunk_called,
    \* the text renderers: which function is called (op), its arguments
    \* (rtext, W, H, is_title, text_area_bounds, wrap, padding), whether the
    \* TrueType font file can be loaded (font_loads), its locals (font,
    \* font_size, max_width, lines, current_y), the main-colour draw.text
    \* calls made so far (drawn) and where the call stands (rpc)
    op, rtext, W, H, is_title, text_area_bounds, wrap, padding, font_loads,
    font, font_size, max_width, lines, current_y, drawn, rpc,
    \* make_final_video in story mode: the settings and files it finds
    \* (storymodemethod, dream_analysis, title_png, content_pngs and the
    \* durations of the mp3 files that exist), its locals
    \* (actual_content_clips, audio_clips, audio_clips_durations,
    \* current_time, the loop index vi), the overlays put on background_clip
    \* (overlays) and on result_video (result_overlays), the length given
    \* to the rendered video (audio_duration) and where the call stands (vpc)
    storymodemethod, dream_analysis, title_png, content_pngs, title_duration,
    postaudio_duration, post_durations, analysis_durations, analysis_pngs,
    actual_content_clips, audio_clips, audio_clips_durations, current_time, vi,
    overlays, result_overlays, audio_duration, vpc,
    \* generate_dream_images: reddit_obj (thread_title, thread_post as the
    \* list of its strings) and settings (storymode_max_length), its locals
    \* (post_content, text_chunks and whether that local is bound, the loop
    \* index gi), the images saved (saved), the count it prints (reported)
    \* and where the call stands (gpc); create_dream_content_images uses the
    \* same names: which of the two functions is called (gop), its text
    \* (post_content), chunks (text_chunks), loop index (gi), the images
    \* saved (saved) and the paths it returns (image_paths)
    thread_title, thread_post, storymode_max_length, post_content,
    text_chunks, chunks_bound, gi, saved, reported, gpc, gop, image_paths,
    \* ChatterboxTTSEngine.run: whether self.model is loaded (tts_model), the
    \* number of characters of text (tts_text), the voice argument
    \* (tts_voice), the directory assets/voices (voice_dir), whether the
    \* voice argument names a file that exists as given (voice_in_cwd), the
    \* path _get_voice_path returned (tts_voice_path), what lies at filepath
    \* (tts_file), what run did so far (tts_log) and where the call stands
    \* (tpc)
    tts_model, tts_text, tts_voice, voice_dir, voice_in_cwd, tts_voice_path,
    tts_file, tts_log, tpc,
    \* DreamAnalyzer.analyze_dream: the analyzer object (analyzer), the
    \* clock (now), the files of the cache directory (cache_dir) and what
    \* they were when the running call began (cache_before), the argument of
    \* the call (arg_text) and the local it becomes (dream_text), what
    \* _get_cached_analysis did (lookup), the requests the call sent
    \* (requests), the analysis it holds (analysis_result), what it returned
    \* (result), the steps of the call that failed (call_failures), its
    \* accesses to the cache directory (cache_ops), the number of calls
    \* made (calls), the calls that returned an analysis obtained from the
    \* service (succeeded) and where the call stands (apc)
    analyzer, now, cache_dir, cache_before, arg_text, dream_text, lookup,
    requests, analysis_result, result, call_failures, cache_ops, calls,
    succeeded, apc,
    \* get_subreddit_threads (reddit/subreddit.py): the settings it reads
    \* (thread_settings, with the comment lengths allowed), whether the optional modules were imported
    \* (DREAM_ANALYSIS_AVAILABLE, AI_AVAILABLE), the arguments of every
    \* invocation on the call stack, outermost first (frames), the
    \* submission selected by the innermost one (submission), its content
    \* dictionary (content), the messages printed (thread_log) and where the
    \* innermost invocation stands (spc)
    thread_settings, DREAM_ANALYSIS_AVAILABLE, AI_AVAILABLE, frames, submission,
    content, thread_log, spc

chunkVars == <<text, words_per_chunk, chunks, chunk_called>>

renderArgs == <<op, rtext, W, H, is_title, text_area_bounds, wrap, padding, font_loads>>

renderVars == <<op, rtext, W, H, is_title, text_area_bounds, wrap, padding,
                font_loads, font, font_size, max_width, lines, current_y,
                drawn, rpc>>

videoEnv == <<storymodemethod, dream_analysis, title_png, content_pngs,
              title_duration, postaudio_duration, post_durations,
              analysis_durations, analysis_pngs>>

videoVars == <<videoEnv, actual_content_clips, audio_clips, audio_clips_durations,
               current_time, vi, overlays, result_overlays, audio_duration, vpc>>

genArgs == <<thread_title, thread_post, storymode_max_length, gop>>

genVars == <<genArgs, post_content, text_chunks, chunks_bound, gi, saved,
             reported, gpc, image_paths>>

ttsVars == <<tts_model, tts_text, tts_voice, voice_dir, voice_in_cwd,
             tts_voice_path, tts_file, tts_log, tpc>>

analyzerVars == <<analyzer, now, cache_dir, cache_before, arg_text, dream_text,
                  lookup, requests, analysis_result, result, call_failures,
                  cache_ops, calls, succeeded, apc>>

threadVars == <<thread_settings, DREAM_ANALYSIS_AVAILABLE, AI_AVAILABLE, frames,
                submission, content, thread_log, spc>>

vars == <<chunkVars, renderVars, videoVars, genVars, ttsVars, analyzerVars, threadVars>>

(***************************************************************************)
(* Bounds of the model                                                     *)
(***************************************************************************)
\* most words in an input text of the chunker
MaxChunkWords == 7
\* largest words_per_chunk tried
MaxWordsPerChunk == 4
\* most words in a text given to the renderers
MaxRenderWords == 4
\* most content images and postaudio files of a post
MaxClips == 3
\* most calls of analyze_dream
MaxAnalyzeCalls == 2

(***************************************************************************)
(* Python string primitives                                                *)
(***************************************************************************)
Min(a, b) == IF a <= b THEN a ELSE b
Max(a, b) == IF a >= b THEN a ELSE b

\* the characters str.split() and str.strip() treat as whitespace
IsSpace(c) == c \in {" ", "\n", "\t"}

RECURSIVE SortedSeq(_)
\* the elements of a finite set of integers in increasing order
SortedSeq(S) ==
    IF S = {} THEN <<>>
    ELSE LET m == CHOOSE k \in S : \A j \in S : k <= j
         IN  <<m>> \o SortedSeq(S \ {m})

\* the pieces of s that start at the positions starts and end at the
\* positions ends, in order
Pieces(s, starts, ends) ==
    LET ss == SortedSeq(starts)
        es == SortedSeq(ends)
    IN  [k \in 1..Len(ss) |-> SubSeq(s, ss[k], es[k])]

\* text.split(): the maximal runs of non-whitespace characters, in order
Split(s) ==
    Pieces(s,
           { k \in 1..Len(s) : ~IsSpace(s[k]) /\ (k = 1 \/ IsSpace(s[k - 1])) },
           { k \in 1..Len(s) : ~IsSpace(s[k]) /\ (k = Len(s) \/ IsSpace(s[k + 1])) })

RECURSIVE Join(_, _)
\* sep.join(ws)
Join(sep, ws) ==
    IF ws = <<>> THEN <<>>
    ELSE IF Len(ws) = 1 THEN ws[1]
    ELSE ws[1] \o sep \o Join(sep, Tail(ws))

\* ws[a:b] of Python (0-based, b exclusive, both already clipped to 0..len)
Slice(ws, a, b) == SubSeq(ws, a + 1, b)

UpperCase == <<"A", "B", "H", "N", "O", "R", "S", "T", "U", "W", "Y">>
LowerCase == <<"a", "b", "h", "n", "o", "r", "s", "t", "u", "w", "y">>

\* str.lower() on one character
LowerChar(c) ==
    IF \E k \in 1..Len(UpperCase) : UpperCase[k] = c
    THEN LowerCase[CHOOSE k \in 1..Len(UpperCase) : UpperCase[k] = c]
    ELSE c

\* word.lower()
Lower(w) == [k \in 1..Len(w) |-> LowerChar(w[k])]

(***************************************************************************)
(* split_into_two_lines and create_dynamic_word_chunks                     *)
(***************************************************************************)
break_words ==
    { <<"a", "n", "d">>, <<"o", "r">>, <<"b", "u", "t">>, <<"s", "o">>,
      <<"t", "h", "e", "n">>, <<"w", "h", "e", "n">>,
      <<"w", "h", "e", "r", "e">>, <<"h", "o", "w">>, <<"w", "h", "y">> }

\* the first index of range(max(1, mid - 2), min(n - 1, mid + 2)) whose word
\* is a break word, else mid
BestSplit(ws) ==
    LET n == Len(ws)
        mid_point == n \div 2
        cand == { k \in Max(1, mid_point - 2) .. (Min(n - 1, mid_point + 2) - 1) :
                    k < n /\ Lower(ws[k + 1]) \in break_words }
    IN  IF cand = {} THEN mid_point
        ELSE CHOOSE k \in cand : \A j \in cand : k <= j

split_into_two_lines(t) ==
    LET ws == Split(t)
    IN  IF Len(ws) <= 3 THEN t
        ELSE LET best_split == BestSplit(ws)
                 line1 == Join(<<" ">>, Slice(ws, 0, best_split))
                 line2 == Join(<<" ">>, Slice(ws, best_split, Len(ws)))
             IN  line1 \o <<"\n">> \o line2

RECURSIVE ChunkLoopDropTail(_, _, _, _)
\* ChunkLoop with the short tail dropped instead of merged
ChunkLoopDropTail(ws, n, i, acc) ==
    IF ~(i < Len(ws)) THEN acc
    ELSE LET chunk_size == Min(n, Len(ws) - i)
         IN  IF chunk_size < 3 /\ acc # <<>>
             THEN acc
             ELSE ChunkLoopDropTail(ws, n, i + chunk_size,
                     Append(acc, split_into_two_lines(
                                    Join(<<" ">>, Slice(ws, i, i + chunk_size)))))

RECURSIVE ChunkLoopWideTail(_, _, _, _)
\* ChunkLoop with the tail threshold off by one (chunk_size <= 3)
ChunkLoopWideTail(ws, n, i, acc) ==
    IF ~(i < Len(ws)) THEN acc
    ELSE LET chunk_size == Min(n, Len(ws) - i)
         IN  IF chunk_size <= 3 /\ acc # <<>>
             THEN [acc EXCEPT ![Len(acc)] =
                      @ \o <<" ">> \o Join(<<" ">>, Slice(ws, i, Len(ws)))]
             ELSE ChunkLoopWideTail(ws, n, i + chunk_size,
                     Append(acc, split_into_two_lines(
                                    Join(<<" ">>, Slice(ws, i, i + chunk_size)))))

RECURSIVE ChunkLoop(_, _, _, _)
\* the while loop of create_dynamic_word_chunks, from index i with the
\* chunks collected so far
ChunkLoop(ws, n, i, acc) ==
    IF ~(i < Len(ws)) THEN acc
    ELSE LET chunk_size == Min(n, Len(ws) - i)
         IN  IF chunk_size < 3 /\ acc # <<>>
             THEN [acc EXCEPT ![Len(acc)] =
                      @ \o <<" ">> \o Join(<<" ">>, Slice(ws, i, Len(ws)))]
             ELSE LET chunk_words == Slice(ws, i, i + chunk_size)
                      chunk_text == Join(<<" ">>, chunk_words)
                      formatted_chunk == split_into_two_lines(chunk_text)
                  IN  ChunkLoop(ws, n, i + chunk_size, Append(acc, formatted_chunk))

\* the chunker returning a short text whole, as create_text_chunks does
create_dynamic_word_chunks_short(t, n) ==
    IF Len(Split(t)) <= n THEN <<t>> ELSE ChunkLoop(Split(t), n, 0, <<>>)

create_dynamic_word_chunks(t, n) == ChunkLoop(Split(t), n, 0, <<>>)

(***************************************************************************)
(* Input texts of the chunker: words separated by whitespace runs          *)
(***************************************************************************)
ChunkWordSet == { <<"a">>, <<"b">>, <<"O", "r">> }
SepSet == { <<" ">>, <<"\n", " ">> }

\* w[1] sep w[2] sep ... w[n]
BuildText(ws, sep) == Join(sep, ws)

ChunkTexts ==
    UNION { { BuildText(ws, sep) : ws \in [1..n -> ChunkWordSet], sep \in SepSet } :
            n \in 1..MaxChunkWords }
    \cup { <<>>, <<" ">>, <<" ", "\n">>, <<" ", "a">>, <<"a", " ">>,
           <<"\n", "a", " ", " ", "b", "\n">> }

(***************************************************************************)
(* Specification of the chunker                                            *)
(***************************************************************************)
\* the renderers before any call
RenderIdle ==
    /\ op = "none" /\ rtext = <<>> /\ W = 0 /\ H = 0 /\ is_title = FALSE
    /\ text_area_bounds = <<>> /\ wrap = 0 /\ padding = 0 /\ font_loads = TRUE
    /\ font = [kind |-> "none", size |-> 0] /\ font_size = 0 /\ max_width = 0
    /\ lines = <<>> /\ current_y = 0 /\ drawn = <<>> /\ rpc = "idle"

\* make_final_video before any call
VideoIdle ==
    /\ storymodemethod = 1 /\ dream_analysis = FALSE /\ title_png = TRUE
    /\ content_pngs = {} /\ title_duration = 0 /\ postaudio_duration = 0
    /\ post_durations = <<>> /\ analysis_durations = <<>> /\ analysis_pngs = 0
    /\ actual_content_clips = 0 /\ audio_clips = <<>> /\ audio_clips_durations = <<>>
    /\ current_time = 0 /\ vi = 0 /\ overlays = <<>> /\ result_overlays = <<>>
    /\ audio_duration = 0 /\ vpc = "idle"

\* generate_dream_images before any call
GenIdle ==
    /\ thread_title = <<>> /\ thread_post = <<>> /\ storymode_max_length = 1000
    /\ post_content = <<>> /\ text_chunks = <<>> /\ chunks_bound = FALSE
    /\ gi = 0 /\ saved = <<>> /\ reported = -1 /\ gpc = "idle"
    /\ gop = "none" /\ image_paths = <<>>

\* a file name of a voice as its stem and its extension
VoiceFile(stem, ext) == [stem |-> stem, ext |-> ext]

\* no file at filepath
NoFile == [kind |-> "absent"]

\* ChatterboxTTSEngine before any call
TtsIdle ==
    /\ tts_model = FALSE /\ tts_text = 0 /\ tts_voice = VoiceFile("default", "")
    /\ voice_dir = [exists |-> FALSE, files |-> {}] /\ voice_in_cwd = FALSE
    /\ tts_voice_path = <<>> /\ tts_file = NoFile /\ tts_log = <<>> /\ tpc = "idle"

\* a JSON object of the analysis service: empty ({}), or with the fields
\* symbols, emotions, interpretation, at top level or under "analysis";
\* inner_dict is false when "analysis" holds a string
Response(empty, wrapped, inner_dict, symbols, emotions, interpretation) ==
    [empty |-> empty, wrapped |-> wrapped, inner_dict |-> inner_dict,
     symbols |-> symbols, emotions |-> emotions, interpretation |-> interpretation]

NoResponse == Response(TRUE, FALSE, TRUE, <<>>, <<>>, <<>>)

\* a cache file that is not what json.dump wrote: cut off JSON
\* (json.JSONDecodeError), bytes that are not UTF-8 (UnicodeDecodeError), a
\* JSON array (no .get: AttributeError)
CorruptEntry(kind) ==
    [kind |-> kind, has_timestamp |-> FALSE, timestamp |-> 0, analysis |-> NoResponse]

\* analyze_dream returned None
None == [kind |-> "None", sections |-> <<>>, full_text |-> <<>>]

\* _get_cached_analysis was not called
NoLookup == [outcome |-> "none", entry |-> CorruptEntry("absent"), age |-> 0]

\* the analyzer before any call
AnalyzerIdle ==
    /\ analyzer = [enabled |-> FALSE, supabase_url |-> <<>>, supabase_key |-> <<>>,
                   cache_enabled |-> TRUE, include_symbols |-> TRUE,
                   include_emotions |-> TRUE, include_meanings |-> TRUE,
                   max_length |-> 800]
    /\ now = 0 /\ cache_dir = {} /\ cache_before = {} /\ arg_text = <<>>
    /\ dream_text = <<>> /\ lookup = NoLookup /\ requests = <<>>
    /\ analysis_result = NoResponse /\ result = None /\ call_failures = {}
    /\ cache_ops = <<>> /\ calls = 0 /\ succeeded = {} /\ apc = "idle"

\* no submission: get_subreddit_undone returned None
NoSubmission == [found |-> FALSE, selftext |-> <<>>, comments |-> <<>>]

\* the content dictionary before it is filled
NoContent ==
    [title_suffix |-> FALSE, is_list |-> FALSE, thread_post |-> <<>>,
     comments |-> <<>>, dream_analysis |-> "unset"]

\* get_subreddit_threads before any call
ThreadsIdle ==
    /\ thread_settings = [post_id |-> <<>>, storymode |-> "True", storymodemethod |-> 1,
                          include_in_title |-> FALSE, ai_similarity_enabled |-> FALSE,
                          max_comment_length |-> 500, min_comment_length |-> 1]
    /\ DREAM_ANALYSIS_AVAILABLE = TRUE /\ AI_AVAILABLE = FALSE
    /\ frames = <<>> /\ submission = NoSubmission /\ content = NoContent
    /\ thread_log = <<>> /\ spc = "idle"

\* the chunker before any call
ChunkIdle ==
    /\ text = <<>> /\ words_per_chunk = 7 /\ chunks = <<>> /\ chunk_called = FALSE

ChunkInit ==
    /\ RenderIdle
    /\ VideoIdle
    /\ GenIdle
    /\ TtsIdle
    /\ AnalyzerIdle
    /\ ThreadsIdle
    /\ text \in ChunkTexts
    /\ words_per_chunk \in 1..MaxWordsPerChunk
    /\ chunks = <<>>
    /\ chunk_called = FALSE

CreateDynamicWordChunks ==
    /\ ~chunk_called
    /\ chunks' = create_dynamic_word_chunks(text, words_per_chunk)
    /\ chunk_called' = TRUE
    /\ UNCHANGED <<text, words_per_chunk>>
    /\ UNCHANGED <<renderVars, videoVars, genVars, ttsVars, analyzerVars, threadVars>>

ChunkNext == CreateDynamicWordChunks

SpecChunk == ChunkInit /\ [][ChunkNext]_vars

(***************************************************************************)
(* Properties of the chunker                                               *)
(***************************************************************************)
RECURSIVE WordsOfAll(_)
\* the whitespace-separated words of a list of strings, in order
WordsOfAll(ss) ==
    IF ss = <<>> THEN <<>> ELSE Split(Head(ss)) \o WordsOfAll(Tail(ss))

WordCount(s) == Len(Split(s))

HasChar(s, c) == \E k \in 1..Len(s) : s[k] = c

\* C1 - chunk coverage: the words of all chunks returned by
\* create_dynamic_word_chunks, concatenated in order, are exactly the
\* whitespace-separated words of the input text.
ChunkCoverage ==
    chunk_called => WordsOfAll(chunks) = Split(text)

\* a call where a chunk was split into two lines and a short tail was merged
ChunkCoverageWitness ==
    /\ chunk_called
    /\ chunks # <<>>
    /\ HasChar(chunks[Len(chunks)], "\n")
    /\ WordCount(chunks[Len(chunks)]) > words_per_chunk
    /\ WordsOfAll(chunks) = Split(text)

\* C2 as claimed - chunk bound: every chunk but the last has exactly
\* words_per_chunk words and the last has between 1 and words_per_chunk.
ChunkBoundOriginal ==
    chunk_called =>
        /\ \A k \in 1..(Len(chunks) - 1) : WordCount(chunks[k]) = words_per_chunk
        /\ chunks # <<>> =>
              WordCount(chunks[Len(chunks)]) \in 1..words_per_chunk

\* C2 as amended - every chunk but the last has exactly words_per_chunk
\* words; the last chunk has at least one word and exceeds words_per_chunk
\* only by a merged tail of fewer than 3 words: by at most 2 words when
\* words_per_chunk >= 3, and when words_per_chunk < 3 every tail is merged,
\* so a single chunk holds all the words of the text.
ChunkBoundAmended ==
    chunk_called =>
        /\ \A k \in 1..(Len(chunks) - 1) : WordCount(chunks[k]) = words_per_chunk
        /\ chunks # <<>> =>
              LET last == WordCount(chunks[Len(chunks)])
              IN  /\ last >= 1
                  /\ words_per_chunk >= 3 => last <= words_per_chunk + 2
                  /\ words_per_chunk < 3 =>
                        Len(chunks) = 1 /\ last = Len(Split(text))

\* a call with words_per_chunk >= 3 whose last chunk took a merged tail
ChunkBoundWitness ==
    /\ chunk_called
    /\ words_per_chunk >= 3
    /\ Len(chunks) >= 2
    /\ WordCount(chunks[Len(chunks)]) > words_per_chunk

\* C8 - empty chunk input: a text with no word (empty or all whitespace)
\* yields the empty sequence of chunks, with no empty-string chunk.
EmptyChunkInput ==
    (chunk_called /\ Split(text) = <<>>) => chunks = <<>>

\* a call on an all-whitespace, non-empty text
EmptyChunkInputWitness ==
    /\ chunk_called
    /\ text # <<>>
    /\ Split(text) = <<>>
    /\ chunks = <<>>

(***************************************************************************)
(* Font metrics: font.getbbox(s) of PIL.  A font is [kind, size]; the      *)
(* advance of a character grows with the size of a TrueType font and is    *)
(* fixed in the built-in default font.                                     *)
(***************************************************************************)
\* advance of a glyph in sixths of the font size
CharUnits(c) ==
    IF c = "m" THEN 3 ELSE IF c \in {"i", " "} THEN 1 ELSE 2

CharWidth(f, c) ==
    IF f.kind = "default" THEN 6 ELSE (CharUnits(c) * f.size) \div 6

RECURSIVE GetWidth(_, _)
\* bbox[2] - bbox[0] of font.getbbox(s)
GetWidth(f, s) ==
    IF s = <<>> THEN 0
    ELSE IF Len(s) = 1 THEN CharWidth(f, s[1])
    ELSE LET half == Len(s) \div 2
         IN  GetWidth(f, SubSeq(s, 1, half)) + GetWidth(f, SubSeq(s, half + 1, Len(s)))

\* ImageFont.truetype(path, size) inside try/except: the built-in default
\* font when the file cannot be loaded
LoadFont(ok, size) ==
    IF ok THEN [kind |-> "truetype", size |-> size]
    ELSE [kind |-> "default", size |-> 11]

(***************************************************************************)
(* wrap_text_to_fit                                                        *)
(***************************************************************************)
RECURSIVE WrapLoopWordOnly(_, _, _, _, _)
\* WrapLoop measuring the new word alone instead of the whole test line
WrapLoopWordOnly(ws, f, mw, ls, current_line) ==
    IF ws = <<>> THEN <<ls, current_line>>
    ELSE LET word == Head(ws)
         IN  IF GetWidth(f, word) <= mw
             THEN WrapLoopWordOnly(Tail(ws), f, mw, ls, Append(current_line, word))
             ELSE IF current_line # <<>>
                  THEN WrapLoopWordOnly(Tail(ws), f, mw,
                          Append(ls, Join(<<" ">>, current_line)), <<word>>)
                  ELSE WrapLoopWordOnly(Tail(ws), f, mw, Append(ls, word), current_line)

RECURSIVE WrapLoopNoForce(_, _, _, _, _)
\* WrapLoop without the branch that forces a too long single word
WrapLoopNoForce(ws, f, mw, ls, current_line) ==
    IF ws = <<>> THEN <<ls, current_line>>
    ELSE LET word == Head(ws)
             test_line == Join(<<" ">>, Append(current_line, word))
         IN  IF GetWidth(f, test_line) <= mw
             THEN WrapLoopNoForce(Tail(ws), f, mw, ls, Append(current_line, word))
             ELSE IF current_line # <<>>
                  THEN WrapLoopNoForce(Tail(ws), f, mw,
                          Append(ls, Join(<<" ">>, current_line)), <<word>>)
                  ELSE WrapLoopNoForce(Tail(ws), f, mw, ls, current_line)

RECURSIVE WrapLoopLoseWord(_, _, _, _, _)
\* WrapLoop starting the new line empty instead of with the word
WrapLoopLoseWord(ws, f, mw, ls, current_line) ==
    IF ws = <<>> THEN <<ls, current_line>>
    ELSE LET word == Head(ws)
             test_line == Join(<<" ">>, Append(current_line, word))
         IN  IF GetWidth(f, test_line) <= mw
             THEN WrapLoopLoseWord(Tail(ws), f, mw, ls, Append(current_line, word))
             ELSE IF current_line # <<>>
                  THEN WrapLoopLoseWord(Tail(ws), f, mw,
                          Append(ls, Join(<<" ">>, current_line)), <<>>)
                  ELSE WrapLoopLoseWord(Tail(ws), f, mw, Append(ls, word), current_line)

RECURSIVE WrapLoop(_, _, _, _, _)
\* the for loop of wrap_text_to_fit over the remaining words ws; returns
\* <<lines, current_line>>
WrapLoop(ws, f, mw, ls, current_line) ==
    IF ws = <<>> THEN <<ls, current_line>>
    ELSE LET word == Head(ws)
             test_line == Join(<<" ">>, Append(current_line, word))
             width == GetWidth(f, test_line)
         IN  IF width <= mw
             THEN WrapLoop(Tail(ws), f, mw, ls, Append(current_line, word))
             ELSE IF current_line # <<>>
                  THEN WrapLoop(Tail(ws), f, mw,
                          Append(ls, Join(<<" ">>, current_line)), <<word>>)
                  ELSE \* Single word too long, force it
                       WrapLoop(Tail(ws), f, mw, Append(ls, word), current_line)

\* wrap_text_to_fit appending the last line even when it is empty
wrap_text_to_fit_flush(t, f, mw) ==
    LET r == WrapLoop(Split(t), f, mw, <<>>, <<>>)
    IN  Append(r[1], Join(<<" ">>, r[2]))

wrap_text_to_fit(t, f, mw) ==
    LET r == WrapLoop(Split(t), f, mw, <<>>, <<>>)
    IN  IF r[2] # <<>> THEN Append(r[1], Join(<<" ">>, r[2])) ELSE r[1]

(***************************************************************************)
(* textwrap.wrap(text, width) with the default options, as called by       *)
(* draw_clean_text: whitespace is replaced by spaces, the text is cut into *)
(* alternating word and whitespace chunks, lines are filled greedily,      *)
(* long words are broken and whitespace at line ends is dropped.           *)
(* The texts of the model hold no hyphen, so the break-on-hyphen rule of   *)
(* textwrap never applies.                                                 *)
(***************************************************************************)
\* replace_whitespace
MungeWhitespace(s) == [k \in 1..Len(s) |-> IF IsSpace(s[k]) THEN " " ELSE s[k]]

\* TextWrapper._split: maximal runs of spaces and of non-spaces
TwSplit(s) ==
    Pieces(s,
           { k \in 1..Len(s) : k = 1 \/ ((s[k] = " ") # (s[k - 1] = " ")) },
           { k \in 1..Len(s) : k = Len(s) \/ ((s[k] = " ") # (s[k + 1] = " ")) })

\* chunk.strip() == ''
IsBlank(c) == \A k \in 1..Len(c) : c[k] = " "

RECURSIVE TwFill(_, _, _, _)
\* the inner while loop of _wrap_chunks: <<cur_line, remaining chunks>>
TwFill(chs, width, cur_line, cur_len) ==
    IF chs # <<>> /\ cur_len + Len(Head(chs)) <= width
    THEN TwFill(Tail(chs), width, Append(cur_line, Head(chs)), cur_len + Len(Head(chs)))
    ELSE <<cur_line, chs>>

RECURSIVE SumLen(_)
SumLen(cs) == IF cs = <<>> THEN 0 ELSE Len(Head(cs)) + SumLen(Tail(cs))

RECURSIVE ConcatAll(_)
\* ''.join(cs)
ConcatAll(cs) == IF cs = <<>> THEN <<>> ELSE Head(cs) \o ConcatAll(Tail(cs))

\* _handle_long_word with break_long_words: <<cur_line, remaining chunks>>
TwHandleLongWord(chs, cur_line, width) ==
    LET space_left == IF width < 1 THEN 1 ELSE width - SumLen(cur_line)
        chunk == Head(chs)
    IN  << Append(cur_line, SubSeq(chunk, 1, space_left)),
           <<SubSeq(chunk, space_left + 1, Len(chunk))>> \o Tail(chs) >>

RECURSIVE TwWrapChunks(_, _, _)
\* the outer while loop of _wrap_chunks
TwWrapChunks(chs, width, ls) ==
    IF chs = <<>> THEN ls
    ELSE LET chs1 == IF IsBlank(Head(chs)) /\ ls # <<>> THEN Tail(chs) ELSE chs
             filled == TwFill(chs1, width, <<>>, 0)
             broken == IF filled[2] # <<>> /\ Len(Head(filled[2])) > width
                       THEN TwHandleLongWord(filled[2], filled[1], width)
                       ELSE filled
             cur == broken[1]
             cur_line == IF cur # <<>> /\ IsBlank(cur[Len(cur)])
                         THEN SubSeq(cur, 1, Len(cur) - 1) ELSE cur
         IN  TwWrapChunks(broken[2], width,
                          IF cur_line # <<>> THEN Append(ls, ConcatAll(cur_line)) ELSE ls)

TextwrapWrap(t, width) == TwWrapChunks(TwSplit(MungeWhitespace(t)), width, <<>>)

(***************************************************************************)
(* draw_clean_text.  Coordinates are kept doubled (x2 = 2x, y2 = 2y): the  *)
(* code divides by 2 with "/", which gives halves.                         *)
(***************************************************************************)
\* height of the bounding box of one glyph
CharHeight(f, c) ==
    IF f.kind = "default" THEN 11
    ELSE IF c = " " THEN 0
    ELSE IF c = "m" THEN f.size \div 2
    ELSE (3 * f.size) \div 4

\* getheight(font, s): bottom - top of font.getbbox(s)
GetHeight(f, s) ==
    LET heights == { CharHeight(f, s[k]) : k \in 1..Len(s) }
    IN  IF s = <<>> THEN 0 ELSE CHOOSE h \in heights : \A g \in heights : g <= h

RECURSIVE DrawCleanLoop(_, _, _, _, _, _)
\* the for loop of draw_clean_text: one main-colour draw.text per line
DrawCleanLoop(ls, f, image_width, y2, pad, acc) ==
    IF ls = <<>> THEN acc
    ELSE LET line == Head(ls)
             line_width == GetWidth(f, line)
             line_height == GetHeight(f, line)
         IN  DrawCleanLoop(Tail(ls), f, image_width, y2 + 2 * (line_height + pad), pad,
                 Append(acc, [line |-> line, x2 |-> image_width - line_width, y2 |-> y2]))

\* y of the first line, doubled
CleanStartY2(t, f, image_height, pad, ls) ==
    image_height - (GetHeight(f, t) + pad) * Len(ls)

(***************************************************************************)
(* Texts and arguments given to the renderers                              *)
(***************************************************************************)
RenderWordSet == { <<"i">>, <<"m">>, <<"m", "i", "m">> }

RenderTexts ==
    UNION { { Join(<<" ">>, ws) : ws \in [1..n -> RenderWordSet] } :
            n \in 1..MaxRenderWords }
    \cup { <<>>, <<" ">>, <<"\n", " ">>, <<" ", "i", "\n", "m", " ">>,
           <<"m", "i", "m", " ", " ", "i">> }

\* fonts handed to wrap_text_to_fit and draw_clean_text by their callers
CallerFonts == { [kind |-> "truetype", size |-> 12], [kind |-> "default", size |-> 11] }

\* text.split('\n'): the pieces between the newlines, empty ones included
SplitLines(s) ==
    Pieces(s,
           {1} \cup { k + 1 : k \in { j \in 1..Len(s) : s[j] = "\n" } },
           { k - 1 : k \in { j \in 1..Len(s) : s[j] = "\n" } } \cup {Len(s)})

\* the bounds create_dynamic_text_image gives to add_dynamic_text
DynamicTextArea(w, h) ==
    <<100, (h - (h \div 5)) \div 2, w - 200, h \div 5>>

\* texts long enough for several lines of 25 or 30 characters
CleanImageTexts ==
    RenderTexts
    \cup { Join(<<" ">>, [k \in 1..n |-> <<"m", "i", "m">>]) : n \in {8, 16} }
    \cup { Join(<<" ">>, [k \in 1..14 |-> IF k <= 9 THEN <<"m", "m">> ELSE <<"i">>]) }

\* texts given to add_dynamic_text: chunks of create_dynamic_word_chunks
DynamicTexts ==
    { split_into_two_lines(t) : t \in RenderTexts }
    \cup { <<"\n">>, <<"i", "\n">>, <<"i", "\n", "\n", "m">> }

RenderInit ==
    /\ ChunkIdle
    /\ RenderIdle
    /\ VideoIdle
    /\ GenIdle
    /\ TtsIdle
    /\ AnalyzerIdle
    /\ ThreadsIdle

\* a caller calls wrap_text_to_fit(text, font, max_width)
CallWrapTextToFit ==
    /\ rpc = "idle"
    /\ op' = "wrap_text_to_fit"
    /\ rtext' \in RenderTexts
    /\ font' \in CallerFonts
    /\ max_width' \in {6, 10, 14}
    /\ W' = 0 /\ H' = 0 /\ is_title' = FALSE /\ text_area_bounds' = <<>>
    /\ wrap' = 0 /\ padding' = 0 /\ font_loads' = TRUE /\ font_size' = 0
    /\ lines' = <<>> /\ current_y' = 0 /\ drawn' = <<>> /\ rpc' = "call"
    /\ UNCHANGED <<chunkVars, videoVars, genVars, ttsVars, analyzerVars, threadVars>>

\* a caller calls draw_clean_text(image, text, font, text_color, padding, wrap)
CallDrawCleanText ==
    /\ rpc = "idle"
    /\ op' = "draw_clean_text"
    /\ rtext' \in RenderTexts
    /\ font' \in CallerFonts
    /\ wrap' \in {2, 4}
    /\ padding' \in {3}
    /\ W' \in {40, 45} /\ H' = 80
    /\ max_width' = 0 /\ is_title' = FALSE /\ text_area_bounds' = <<>>
    /\ font_loads' = TRUE /\ font_size' = 0
    /\ lines' = <<>> /\ current_y' = 0 /\ drawn' = <<>> /\ rpc' = "call"
    /\ UNCHANGED <<chunkVars, videoVars, genVars, ttsVars, analyzerVars, threadVars>>

\* a caller calls add_premium_text(draw, text, W, H, is_title, text_area_bounds)
CallAddPremiumText ==
    /\ rpc = "idle"
    /\ op' = "add_premium_text"
    /\ rtext' \in RenderTexts
    /\ is_title' \in BOOLEAN
    /\ text_area_bounds' \in { <<>>, <<20, 30, 100, 60>> }
    /\ W' \in {200, 230} /\ H' = 320
    /\ font_loads' \in BOOLEAN
    /\ font' = [kind |-> "none", size |-> 0]
    /\ max_width' = 0 /\ wrap' = 0 /\ padding' = 0 /\ font_size' = 0
    /\ lines' = <<>> /\ current_y' = 0 /\ drawn' = <<>> /\ rpc' = "call"
    /\ UNCHANGED <<chunkVars, videoVars, genVars, ttsVars, analyzerVars, threadVars>>

\* a caller calls create_clean_title_image(title, reddit_id, W, H) or
\* create_clean_content_image(text, filename, reddit_id, W, H)
CallCreateCleanImage ==
    /\ rpc = "idle"
    /\ op' \in {"create_clean_title_image", "create_clean_content_image"}
    /\ rtext' \in CleanImageTexts
    /\ W' \in {1080, 1081} /\ H' \in {1920, 1921}
    /\ font_loads' \in BOOLEAN
    /\ font' = [kind |-> "none", size |-> 0]
    /\ is_title' = FALSE /\ text_area_bounds' = <<>>
    /\ max_width' = 0 /\ wrap' = 0 /\ padding' = 0 /\ font_size' = 0
    /\ lines' = <<>> /\ current_y' = 0 /\ drawn' = <<>> /\ rpc' = "call"
    /\ UNCHANGED <<chunkVars, videoVars, genVars, ttsVars, analyzerVars, threadVars>>

\* a caller calls create_dream_title_image(reddit_object, theme, text_color)
CallCreateDreamTitleImage ==
    /\ rpc = "idle"
    /\ op' = "create_dream_title_image"
    /\ rtext' \in CleanImageTexts
    /\ W' = 1080 /\ H' = 1920
    /\ font_loads' \in BOOLEAN
    /\ font' = [kind |-> "none", size |-> 0]
    /\ is_title' = FALSE /\ text_area_bounds' = <<>>
    /\ max_width' = 0 /\ wrap' = 25 /\ padding' = 20 /\ font_size' = 0
    /\ lines' = <<>> /\ current_y' = 0 /\ drawn' = <<>> /\ rpc' = "call"
    /\ UNCHANGED <<chunkVars, videoVars, genVars, ttsVars, analyzerVars, threadVars>>

\* a caller calls add_dynamic_text(draw, text, W, H, text_area_bounds)
CallAddDynamicText ==
    /\ rpc = "idle"
    /\ op' = "add_dynamic_text"
    /\ rtext' \in DynamicTexts
    /\ \E w \in {1080, 1081} :
          /\ W' = w /\ H' = 1920
          /\ text_area_bounds' \in { <<>>, DynamicTextArea(w, 1920) }
    /\ font_loads' \in BOOLEAN
    /\ font' = [kind |-> "none", size |-> 0]
    /\ is_title' = FALSE
    /\ max_width' = 0 /\ wrap' = 0 /\ padding' = 0 /\ font_size' = 0
    /\ lines' = <<>> /\ current_y' = 0 /\ drawn' = <<>> /\ rpc' = "call"
    /\ UNCHANGED <<chunkVars, videoVars, genVars, ttsVars, analyzerVars, threadVars>>

\* a caller calls create_fancy_thumbnail(image, text, text_color, padding, wrap)
CallCreateFancyThumbnail ==
    /\ rpc = "idle"
    /\ op' = "create_fancy_thumbnail"
    /\ rtext' \in RenderTexts
    /\ W' = 1080 /\ H' \in {1080, 1081}
    /\ wrap' \in {2, 4} /\ padding' = 5
    /\ font_loads' \in BOOLEAN
    /\ font' = [kind |-> "none", size |-> 0]
    /\ is_title' = FALSE /\ text_area_bounds' = <<>>
    /\ max_width' = 0 /\ font_size' = 0
    /\ lines' = <<>> /\ current_y' = 0 /\ drawn' = <<>> /\ rpc' = "call"
    /\ UNCHANGED <<chunkVars, videoVars, genVars, ttsVars, analyzerVars, threadVars>>

(***************************************************************************)
(* Calls of the renderers                                                  *)
(***************************************************************************)
WrapTextToFit ==
    /\ op = "wrap_text_to_fit" /\ rpc = "call"
    /\ lines' = wrap_text_to_fit(rtext, font, max_width)
    /\ rpc' = "done"
    /\ UNCHANGED <<renderArgs, font, font_size, max_width, current_y, drawn>>
    /\ UNCHANGED <<chunkVars, videoVars, genVars, ttsVars, analyzerVars, threadVars>>

DrawCleanText ==
    /\ op = "draw_clean_text" /\ rpc = "call"
    /\ LET ls == TextwrapWrap(rtext, wrap)
           y2 == CleanStartY2(rtext, font, H, padding, ls)
       IN  /\ lines' = ls
           /\ drawn' = DrawCleanLoop(ls, font, W, y2, padding, <<>>)
    /\ rpc' = "done"
    /\ UNCHANGED <<renderArgs, font, font_size, max_width, current_y>>
    /\ UNCHANGED <<chunkVars, videoVars, genVars, ttsVars, analyzerVars, threadVars>>

RECURSIVE ShrunkSize(_, _, _, _)
\* the largest size, going down in steps of 2 to the floor 14, whose wrap fits
ShrunkSize(t, ok, mw, size) ==
    LET f == LoadFont(ok, size)
        ls == wrap_text_to_fit(t, f, mw)
    IN  IF size - 2 < 14 \/ \A k \in 1..Len(ls) : GetWidth(f, ls[k]) <= mw
        THEN size
        ELSE ShrunkSize(t, ok, mw, size - 2)

\* add_premium_text with a shrink loop around the wrap
PremiumWrapShrink ==
    /\ op = "add_premium_text" /\ rpc = "call"
    /\ LET mw == IF is_title THEN W - 140
                 ELSE IF text_area_bounds # <<>> THEN text_area_bounds[3] - 40
                 ELSE W - 160
           size == ShrunkSize(rtext, font_loads, mw, IF is_title THEN 68 ELSE 42)
           f == LoadFont(font_loads, size)
           wrapped_lines == wrap_text_to_fit(rtext, f, mw)
       IN  /\ font_size' = size
           /\ max_width' = mw
           /\ font' = f
           /\ lines' = wrapped_lines
           /\ current_y' = (H \div 2) - ((Len(wrapped_lines) * (size + 12)) \div 2)
    /\ rpc' = "draw"
    /\ UNCHANGED <<renderArgs, drawn>>
    /\ UNCHANGED <<chunkVars, videoVars, genVars, ttsVars, analyzerVars, threadVars>>

\* add_premium_text up to the for loop: style, font, wrap, first y
PremiumWrap ==
    /\ op = "add_premium_text" /\ rpc = "call"
    /\ LET size == IF is_title THEN 68 ELSE 42
           y_offset == IF is_title THEN (2 * H) \div 5
                       ELSE IF text_area_bounds # <<>>
                            THEN text_area_bounds[2] + (text_area_bounds[4] \div 2)
                            ELSE H \div 2
           mw == IF is_title THEN W - 140
                 ELSE IF text_area_bounds # <<>> THEN text_area_bounds[3] - 40
                 ELSE W - 160
           f == LoadFont(font_loads, size)
           wrapped_lines == wrap_text_to_fit(rtext, f, mw)
           line_height == size + 12
           total_height == Len(wrapped_lines) * line_height
       IN  /\ font_size' = size
           /\ max_width' = mw
           /\ font' = f
           /\ lines' = wrapped_lines
           /\ current_y' = y_offset - (total_height \div 2)
    /\ rpc' = "draw"
    /\ UNCHANGED <<renderArgs, drawn>>
    /\ UNCHANGED <<chunkVars, videoVars, genVars, ttsVars, analyzerVars, threadVars>>

\* PremiumDrawLine centring the line in the text area instead of the canvas
PremiumDrawLineArea ==
    /\ op = "add_premium_text" /\ rpc = "draw"
    /\ Len(drawn) < Len(lines)
    /\ LET line == lines[Len(drawn) + 1]
           text_width == GetWidth(font, line)
           x == IF text_area_bounds # <<>>
                THEN text_area_bounds[1] + ((text_area_bounds[3] - text_width) \div 2)
                ELSE (W - text_width) \div 2
           line_height == font_size + 12
       IN  /\ drawn' = Append(drawn, [line |-> line, x2 |-> 2 * x, y2 |-> 2 * current_y])
           /\ current_y' = current_y + line_height
    /\ UNCHANGED <<renderArgs, font, font_size, max_width, lines, rpc>>
    /\ UNCHANGED <<chunkVars, videoVars, genVars, ttsVars, analyzerVars, threadVars>>

\* one iteration of the for loop of add_premium_text
PremiumDrawLine ==
    /\ op = "add_premium_text" /\ rpc = "draw"
    /\ Len(drawn) < Len(lines)
    /\ LET line == lines[Len(drawn) + 1]
           text_width == GetWidth(font, line)
           x == (W - text_width) \div 2
           line_height == font_size + 12
       IN  /\ drawn' = Append(drawn, [line |-> line, x2 |-> 2 * x, y2 |-> 2 * current_y])
           /\ current_y' = current_y + line_height
    /\ UNCHANGED <<renderArgs, font, font_size, max_width, lines, rpc>>
    /\ UNCHANGED <<chunkVars, videoVars, genVars, ttsVars, analyzerVars, threadVars>>

\* the for loop is exhausted and add_premium_text returns
PremiumReturn ==
    /\ op = "add_premium_text" /\ rpc = "draw"
    /\ Len(drawn) = Len(lines)
    /\ rpc' = "done"
    /\ UNCHANGED <<renderArgs, font, font_size, max_width, lines, current_y, drawn>>
    /\ UNCHANGED <<chunkVars, videoVars, genVars, ttsVars, analyzerVars, threadVars>>

\* the for loop of create_clean_title_image and create_clean_content_image
CleanImageDraws(ls, f, image_width, start_y, line_height) ==
    [k \in 1..Len(ls) |->
        [line |-> ls[k],
         x2 |-> 2 * ((image_width - GetWidth(f, ls[k])) \div 2),
         y2 |-> 2 * (start_y + (k - 1) * line_height)]]

\* create_clean_title_image (size 80, width 25, line height 90) and
\* create_clean_content_image (size 60, width 30, line height 70)
CreateCleanImage ==
    /\ op \in {"create_clean_title_image", "create_clean_content_image"}
    /\ rpc = "call"
    /\ LET size == IF op = "create_clean_title_image" THEN 80 ELSE 60
           f == LoadFont(font_loads, size)
           ls == TextwrapWrap(rtext, IF op = "create_clean_title_image" THEN 25 ELSE 30)
           line_height == IF op = "create_clean_title_image" THEN 90 ELSE 70
           total_height == Len(ls) * line_height
           start_y == (H - total_height) \div 2
       IN  /\ font' = f
           /\ font_size' = size
           /\ lines' = ls
           /\ current_y' = start_y
           /\ drawn' = CleanImageDraws(ls, f, W, start_y, line_height)
    /\ rpc' = "done"
    /\ UNCHANGED <<renderArgs, max_width>>
    /\ UNCHANGED <<chunkVars, videoVars, genVars, ttsVars, analyzerVars, threadVars>>

\* the subtitle drawn under the title by create_dream_title_image
Subtitle ==
    <<"*", " ", "D", "r", "e", "a", "m", " ", "S", "t", "o", "r", "y", " ", "*">>

\* create_dream_title_image: the title, cut to 100 characters, is drawn by
\* draw_clean_text with the 80pt font, then the subtitle with the 40pt font
CreateDreamTitleImage ==
    /\ op = "create_dream_title_image" /\ rpc = "call"
    /\ LET title_font == LoadFont(font_loads, 80)
           subtitle_font == LoadFont(font_loads, 40)
           title_text == IF Len(rtext) > 100
                         THEN SubSeq(rtext, 1, 97) \o <<".", ".", ".">>
                         ELSE rtext
           ls == TextwrapWrap(title_text, wrap)
           y2 == CleanStartY2(title_text, title_font, H, padding, ls)
           subtitle_width == GetWidth(subtitle_font, Subtitle)
           subtitle_height == GetHeight(subtitle_font, Subtitle)
       IN  /\ font' = title_font
           /\ font_size' = 80
           /\ lines' = ls
           /\ drawn' = Append(DrawCleanLoop(ls, title_font, W, y2, padding, <<>>),
                              [line |-> Subtitle,
                               x2 |-> 1080 - subtitle_width,
                               y2 |-> 2 * (1920 - subtitle_height - 150)])
    /\ rpc' = "done"
    /\ UNCHANGED <<renderArgs, max_width, current_y>>
    /\ UNCHANGED <<chunkVars, videoVars, genVars, ttsVars, analyzerVars, threadVars>>

\* add_dynamic_text up to the for loop; without text_area_bounds it draws
\* nothing
DynamicLayout ==
    /\ op = "add_dynamic_text" /\ rpc = "call"
    /\ LET f == LoadFont(font_loads, 48)
           ls == IF HasChar(rtext, "\n") THEN SplitLines(rtext) ELSE <<rtext>>
           line_height == 48 + 8
           total_height == Len(ls) * line_height
       IN  /\ font' = f
           /\ font_size' = 48
           /\ lines' = ls
           /\ IF text_area_bounds # <<>>
              THEN /\ current_y' = text_area_bounds[2]
                                     + ((text_area_bounds[4] - total_height) \div 2)
                   /\ rpc' = "draw"
              ELSE /\ current_y' = current_y
                   /\ rpc' = "done"
    /\ UNCHANGED <<renderArgs, max_width, drawn>>
    /\ UNCHANGED <<chunkVars, videoVars, genVars, ttsVars, analyzerVars, threadVars>>

\* one iteration of the for loop of add_dynamic_text
DynamicDrawLine ==
    /\ op = "add_dynamic_text" /\ rpc = "draw"
    /\ Len(drawn) < Len(lines)
    /\ LET line == lines[Len(drawn) + 1]
           text_width == GetWidth(font, line)
           x == (W - text_width) \div 2
           line_height == font_size + 8
       IN  /\ drawn' = Append(drawn, [line |-> line, x2 |-> 2 * x, y2 |-> 2 * current_y])
           /\ current_y' = current_y + line_height
    /\ UNCHANGED <<renderArgs, font, font_size, max_width, lines, rpc>>
    /\ UNCHANGED <<chunkVars, videoVars, genVars, ttsVars, analyzerVars, threadVars>>

\* the for loop is exhausted and add_dynamic_text returns
DynamicReturn ==
    /\ op = "add_dynamic_text" /\ rpc = "draw"
    /\ Len(drawn) = Len(lines)
    /\ rpc' = "done"
    /\ UNCHANGED <<renderArgs, font, font_size, max_width, lines, current_y, drawn>>
    /\ UNCHANGED <<chunkVars, videoVars, genVars, ttsVars, analyzerVars, threadVars>>

\* settings.config["settings"]["channel_name"]
channel_name == <<"c", "h">>

\* the title font size create_fancy_thumbnail ends with for n wrapped lines
ThumbnailSize(n) ==
    IF n = 3 THEN 40 ELSE IF n = 4 THEN 35 ELSE IF n > 4 THEN 30 ELSE 47

\* the constant added to y for n wrapped lines
ThumbnailShift(n) ==
    IF n = 3 THEN 35 ELSE IF n = 4 THEN 40 ELSE 30

RECURSIVE ThumbnailLoop(_, _, _, _, _)
\* the for loop of create_fancy_thumbnail: every line at x = 120
ThumbnailLoop(ls, f, y2, pad, acc) ==
    IF ls = <<>> THEN acc
    ELSE ThumbnailLoop(Tail(ls), f, y2 + 2 * (GetHeight(f, Head(ls)) + pad), pad,
             Append(acc, [line |-> Head(ls), x2 |-> 2 * 120, y2 |-> y2]))

\* create_fancy_thumbnail: ImageFont.truetype is called outside any try, and
\* the first y divides by len(lines)
CreateFancyThumbnail ==
    /\ op = "create_fancy_thumbnail" /\ rpc = "call"
    /\ IF ~font_loads
       THEN /\ rpc' = "OSError"
            /\ UNCHANGED <<font, font_size, lines, drawn>>
       ELSE LET first == TextwrapWrap(rtext, wrap)
                n == Len(first)
                size == ThumbnailSize(n)
                f == LoadFont(TRUE, size)
                ls == IF n >= 3 THEN TextwrapWrap(rtext, wrap + 10) ELSE first
                y2 == H - (GetHeight(f, rtext) + padding) * Len(ls)
                        + 2 * ThumbnailShift(n)
            IN  IF n = 0
                THEN /\ rpc' = "ZeroDivisionError"
                     /\ font' = LoadFont(TRUE, 47)
                     /\ lines' = first
                     /\ UNCHANGED <<font_size, drawn>>
                ELSE /\ rpc' = "done"
                     /\ font' = f
                     /\ font_size' = size
                     /\ lines' = ls
                     /\ drawn' = ThumbnailLoop(ls, f, y2, padding,
                                    << [line |-> channel_name, x2 |-> 2 * 205,
                                        y2 |-> 2 * 825] >>)
    /\ UNCHANGED <<renderArgs, max_width, current_y>>
    /\ UNCHANGED <<chunkVars, videoVars, genVars, ttsVars, analyzerVars, threadVars>>

RenderNext ==
    \/ CallWrapTextToFit
    \/ CallDrawCleanText
    \/ CallAddPremiumText
    \/ WrapTextToFit
    \/ DrawCleanText
    \/ PremiumWrap
    \/ PremiumDrawLine
    \/ PremiumReturn
    \/ CallCreateCleanImage
    \/ CallCreateDreamTitleImage
    \/ CallAddDynamicText
    \/ CallCreateFancyThumbnail
    \/ CreateCleanImage
    \/ CreateDreamTitleImage
    \/ DynamicLayout
    \/ DynamicDrawLine
    \/ DynamicReturn
    \/ CreateFancyThumbnail

SpecRender == RenderInit /\ [][RenderNext]_vars


(***************************************************************************)
(* Properties of wrap_text_to_fit and of the renderers                     *)
(***************************************************************************)
\* the marker character U+00AD (soft hyphen)
SoftHyphen == "SHY"

\* wrap_text_to_fit has returned its lines, called directly or by
\* add_premium_text
WrapReturned ==
    \/ op = "wrap_text_to_fit" /\ rpc = "done"
    \/ op = "add_premium_text" /\ rpc \in {"draw", "done"}

TooWide(s) == GetWidth(font, s) > max_width

EndsWithHyphen(s) == s # <<>> /\ s[Len(s)] = SoftHyphen

\* a line produced by the hyphenation fallback: it ends with the marker or
\* follows a line that does
HyphenPiece(k) ==
    \/ EndsWithHyphen(lines[k])
    \/ k > 1 /\ EndsWithHyphen(lines[k - 1])

\* C3 as claimed - wrap fit: every returned line that is not a hyphenated
\* fallback piece measures at most max_width.
WrapFitOriginal ==
    WrapReturned =>
        \A k \in 1..Len(lines) : ~HyphenPiece(k) => ~TooWide(lines[k])

\* C3 as amended - every returned line of more than one word measures at
\* most max_width; a line wider than max_width is a single word that is
\* itself wider than max_width, kept whole.
WrapFitAmended ==
    WrapReturned =>
        \A k \in 1..Len(lines) :
            /\ WordCount(lines[k]) > 1 => ~TooWide(lines[k])
            /\ TooWide(lines[k]) => Split(lines[k]) = <<lines[k]>>

\* a wrap that returned a line of several words and a too wide line
WrapFitWitness ==
    /\ WrapReturned
    /\ \E k \in 1..Len(lines) : WordCount(lines[k]) > 1 /\ ~TooWide(lines[k])
    /\ \E k \in 1..Len(lines) : TooWide(lines[k])

\* a piece without its trailing marker
PieceText(s) == IF EndsWithHyphen(s) THEN SubSeq(s, 1, Len(s) - 1) ELSE s

\* lines a..b are the hyphenated pieces of the word w
HyphenatedAs(w, a, b) ==
    /\ a < b
    /\ \A k \in a..b : ~TooWide(lines[k])
    /\ \A k \in a..(b - 1) : EndsWithHyphen(lines[k])
    /\ ConcatAll([k \in 1..(b - a + 1) |-> PieceText(lines[a + k - 1])]) = w

\* C4 as claimed - oversized token: a word wider than max_width is split
\* into at least 2 pieces, each at most max_width wide, all but the last
\* ending with a soft hyphen, which concatenate to the word.
OversizedTokenOriginal ==
    WrapReturned =>
        \A i \in 1..Len(Split(rtext)) :
            TooWide(Split(rtext)[i]) =>
                \E a \in 1..Len(lines), b \in 1..Len(lines) :
                    HyphenatedAs(Split(rtext)[i], a, b)

\* C4 as amended - a word wider than max_width is never split: after the
\* pending line is flushed it becomes a line of its own, whole and without
\* soft hyphen, so the too wide lines are exactly the too wide words of the
\* text, in order.
OversizedTokenAmended ==
    WrapReturned =>
        /\ SelectSeq(lines, TooWide) = SelectSeq(Split(rtext), TooWide)
        /\ \A k \in 1..Len(lines) :
              /\ ~HasChar(lines[k], SoftHyphen)
              /\ (\E w \in 1..Len(Split(lines[k])) : TooWide(Split(lines[k])[w]))
                    => Split(lines[k]) = <<lines[k]>>

\* a wrap that met a too wide word while a line was pending
OversizedTokenWitness ==
    /\ WrapReturned
    /\ \E k \in 2..Len(lines) : TooWide(lines[k]) /\ ~TooWide(lines[k - 1])

\* C5 - wrap coverage: the words of all returned lines, in order, are exactly
\* the whitespace-separated words of the input text (no hyphen marker is
\* ever inserted).
WrapCoverage ==
    WrapReturned => WordsOfAll(lines) = Split(rtext)

\* a wrap with a too wide word and with a word moved to a new line
WrapCoverageWitness ==
    /\ WrapReturned
    /\ \E k \in 1..Len(lines) : TooWide(lines[k])
    /\ \E k \in 1..(Len(lines) - 1) : ~TooWide(lines[k]) /\ ~TooWide(lines[k + 1])
    /\ WordsOfAll(lines) = Split(rtext)

\* the functions that wrap their text (wrap_text_to_fit or textwrap.wrap);
\* add_dynamic_text only cuts its chunk at the newline
WrappingOp == op # "add_dynamic_text"

\* the draw.text calls for the lines of the text: create_dream_title_image
\* draws its subtitle last, create_fancy_thumbnail the channel name first
BlockDrawn ==
    IF op = "create_dream_title_image" /\ drawn # <<>>
    THEN SubSeq(drawn, 1, Len(drawn) - 1)
    ELSE IF op = "create_fancy_thumbnail" /\ drawn # <<>> THEN Tail(drawn)
    ELSE drawn

\* C9 - empty wrap input: for an empty or all-whitespace text the wrap
\* returns no line and the renderers that wrap draw no line of the text.
EmptyWrapInput ==
    (rpc \in {"draw", "done"} /\ WrappingOp /\ Split(rtext) = <<>>)
        => (lines = <<>> /\ BlockDrawn = <<>>)

\* draw_clean_text has returned from an all-whitespace, non-empty text
EmptyWrapInputWitness ==
    /\ op = "draw_clean_text" /\ rpc = "done"
    /\ rtext # <<>> /\ Split(rtext) = <<>>
    /\ lines = <<>> /\ drawn = <<>>

\* the font size add_premium_text starts with
InitialFontSize == IF is_title THEN 68 ELSE 42

\* C10 as claimed - shrink loop: while a wrapped line exceeds max_width the
\* renderer reduces the font size and wraps again, so it returns with all
\* lines fitting or with a reduced font size.
ShrinkLoopOriginal ==
    (op = "add_premium_text" /\ rpc = "done"
        /\ \E k \in 1..Len(lines) : TooWide(lines[k]))
    => font_size < InitialFontSize

\* C10 as amended - add_premium_text has no shrink loop: it wraps once at
\* its fixed font size (68 for a title, 42 otherwise) and never reduces it
\* or wraps again; its only loop draws the wrapped lines one per iteration,
\* each exactly once even if wider than max_width, and returns after the
\* last one, so it always terminates.
ShrinkLoopAmended ==
    /\ [](op = "add_premium_text" /\ rpc \in {"draw", "done"} =>
            /\ font_size = InitialFontSize
            /\ font.kind = "truetype" => font.size = InitialFontSize
            /\ lines = wrap_text_to_fit(rtext, font, max_width)
            /\ Len(drawn) <= Len(lines)
            /\ \A k \in 1..Len(drawn) : drawn[k].line = lines[k]
            /\ rpc = "done" => Len(drawn) = Len(lines))
    /\ [][(op = "add_premium_text" /\ rpc = "draw") =>
            /\ lines' = lines
            /\ font_size' = font_size
            /\ rpc' = "done" \/ (rpc' = "draw" /\ Len(drawn') = Len(drawn) + 1)]_vars

\* add_premium_text returned after drawing a line wider than max_width
ShrinkLoopWitness ==
    /\ op = "add_premium_text" /\ rpc = "done"
    /\ font_size = InitialFontSize
    /\ \E k \in 1..Len(drawn) : TooWide(drawn[k].line)

(***************************************************************************)
(* Properties of the positions of the drawn lines.  Positions are doubled, *)
(* so that the halves "/ 2" gives are whole numbers.                       *)
(***************************************************************************)
\* the functions that draw text
DrawingOps ==
    { "draw_clean_text", "create_dream_title_image", "create_clean_title_image",
      "create_clean_content_image", "add_premium_text", "add_dynamic_text",
      "create_fancy_thumbnail" }

\* the text create_dream_title_image gives to draw_clean_text
RenderedText ==
    IF op = "create_dream_title_image" /\ Len(rtext) > 100
    THEN SubSeq(rtext, 1, 97) \o <<".", ".", ".">>
    ELSE rtext

\* the height of one line that the function multiplies by the number of
\* lines to get the height of the block
BlockLineHeight ==
    IF op \in {"draw_clean_text", "create_dream_title_image", "create_fancy_thumbnail"}
    THEN GetHeight(font, RenderedText) + padding
    ELSE IF op = "create_clean_title_image" THEN 90
    ELSE IF op = "create_clean_content_image" THEN 70
    ELSE IF op = "add_premium_text" THEN font_size + 12
    ELSE font_size + 8

\* v / 2, doubled, exact or rounded down to a whole pixel
HalfOf(v) == {v, 2 * (v \div 2)}

\* C11 - vertical centring: in every renderer the first of n lines is drawn
\* at y = (H - n * line_height) / 2, every following line exactly
\* line_height lower, line_height being the value the block height was
\* computed with.
VerticalCentring ==
    (op \in DrawingOps /\ rpc = "done") =>
        \E top2 \in HalfOf(H - Len(lines) * BlockLineHeight) :
            \A k \in 1..Len(BlockDrawn) :
                BlockDrawn[k].y2 = top2 + 2 * (k - 1) * BlockLineHeight

\* the font the k-th draw.text call uses
DrawnFont(k) ==
    IF op = "create_dream_title_image" /\ k = Len(drawn) THEN LoadFont(font_loads, 40)
    ELSE IF op = "create_fancy_thumbnail" /\ k = 1 THEN LoadFont(font_loads, 30)
    ELSE font

\* C12 as claimed - horizontal centring: every line drawn by a renderer is
\* drawn at x = (W - measured width of the line) / 2.
HorizontalCentringOriginal ==
    op \in DrawingOps =>
        \A k \in 1..Len(drawn) :
            drawn[k].x2 = W - GetWidth(DrawnFont(k), drawn[k].line)

\* C12 as amended - every line is centred on the width W of the whole
\* canvas, also when a narrower text area is given: draw_clean_text and
\* create_dream_title_image draw it at x = (W - width) / 2, the clean title
\* and content images, add_premium_text and add_dynamic_text at that value
\* rounded down to a whole pixel; create_fancy_thumbnail centres nothing, it
\* draws the channel name at x = 205 and every title line at x = 120.
HorizontalCentringAmended ==
    op \in DrawingOps =>
        \A k \in 1..Len(drawn) :
            LET width == GetWidth(DrawnFont(k), drawn[k].line)
            IN  IF op \in {"draw_clean_text", "create_dream_title_image"}
                THEN drawn[k].x2 = W - width
                ELSE IF op = "create_fancy_thumbnail"
                THEN drawn[k].x2 = IF k = 1 THEN 2 * 205 ELSE 2 * 120
                ELSE drawn[k].x2 = 2 * ((W - width) \div 2)

\* add_premium_text returned after drawing, in a text area narrower than
\* the canvas, a line whose distance to the canvas width is odd
HorizontalCentringWitness ==
    /\ op = "add_premium_text" /\ rpc = "done"
    /\ text_area_bounds # <<>> /\ text_area_bounds[3] < W
    /\ \E k \in 1..Len(drawn) :
          /\ (W - GetWidth(font, drawn[k].line)) % 2 = 1
          /\ drawn[k].x2 = W - GetWidth(font, drawn[k].line) - 1

\* the functions that load a font file
FontLoadingOps ==
    { "create_dream_title_image", "create_clean_title_image",
      "create_clean_content_image", "add_premium_text", "add_dynamic_text",
      "create_fancy_thumbnail" }

\* C13 - font load failure is never fatal: in every function that loads a
\* font, when the font file cannot be loaded the built-in default font is
\* used and the function goes on; none raises.
FontFailureNeverFatal ==
    (op \in FontLoadingOps /\ ~font_loads /\ rpc \notin {"idle", "call"}) =>
        /\ rpc \in {"draw", "done"}
        /\ font = LoadFont(FALSE, font_size)

(***************************************************************************)
(* make_final_video with settings.storymode on.  Durations are whole       *)
(* numbers of time units; a file name is a record [name, idx].             *)
(***************************************************************************)
Durations == {1, 2}

Clip(name, idx) == [name |-> name, idx |-> idx]

RECURSIVE Sum(_)
Sum(ds) == IF ds = <<>> THEN 0 ELSE Head(ds) + Sum(Tail(ds))

\* sequences over S of length at most n
SeqUpTo(S, n) == UNION { [1..k -> S] : k \in 0..n }

\* the number of content_0.png, content_1.png, ... found before the first
\* missing one
RECURSIVE CountContent(_, _)
CountContent(pngs, i) == IF i \in pngs THEN CountContent(pngs, i + 1) ELSE i

\* the analysis_chunk_k.mp3 files, k = 0, 1, ..., that exist
AnalysisAudio == [k \in 1..Len(analysis_durations) |-> Clip("analysis_chunk", k - 1)]

VideoInit ==
    /\ ChunkIdle
    /\ RenderIdle
    /\ GenIdle
    /\ TtsIdle
    /\ AnalyzerIdle
    /\ ThreadsIdle
    /\ storymodemethod \in {0, 1}
    /\ dream_analysis \in BOOLEAN
    /\ title_png \in BOOLEAN
    /\ content_pngs \in SUBSET (0..(MaxClips - 1))
    /\ title_duration \in Durations
    /\ postaudio_duration \in {2}
    /\ post_durations \in SeqUpTo(Durations, MaxClips)
    /\ analysis_durations \in IF dream_analysis THEN SeqUpTo({1}, 2) ELSE {<<>>}
    /\ analysis_pngs \in IF dream_analysis THEN 0..1 ELSE {0}
    /\ actual_content_clips = 0 /\ audio_clips = <<>> /\ audio_clips_durations = <<>>
    /\ current_time = 0 /\ vi = 0 /\ overlays = <<>> /\ result_overlays = <<>>
    /\ audio_duration = 0 /\ vpc = "count"

\* lines 248-254: count the content images
CountContentClips ==
    /\ vpc = "count"
    /\ actual_content_clips' =
          IF storymodemethod = 1 THEN CountContent(content_pngs, 0) ELSE 0
    /\ vpc' = "audio"
    /\ UNCHANGED <<videoEnv, audio_clips, audio_clips_durations, current_time, vi,
                   overlays, result_overlays, audio_duration>>
    /\ UNCHANGED <<chunkVars, renderVars, genVars, ttsVars, analyzerVars, threadVars>>

\* lines 262-320: gather the audio clips and concatenate them into
\* audio.mp3; ffmpeg raises when a postaudio file is missing
GatherAudio ==
    /\ vpc = "audio"
    /\ LET story == IF storymodemethod = 0
                    THEN <<Clip("title", 0), Clip("postaudio", 0)>>
                    ELSE <<Clip("title", 0)>> \o
                         [k \in 1..actual_content_clips |-> Clip("postaudio-", k - 1)]
           clips == IF dream_analysis THEN story \o AnalysisAudio ELSE story
       IN  /\ audio_clips' = clips
           /\ vpc' = IF storymodemethod = 1 /\ actual_content_clips > Len(post_durations)
                     THEN "raised" ELSE "title"
    /\ UNCHANGED <<videoEnv, actual_content_clips, audio_clips_durations, current_time,
                   vi, overlays, result_overlays, audio_duration>>
    /\ UNCHANGED <<chunkVars, renderVars, genVars, ttsVars, analyzerVars, threadVars>>

\* lines 338-371: probe the durations and enable the title image
OverlayTitle ==
    /\ vpc = "title"
    /\ LET ds == <<title_duration>> \o
                 [k \in 1..actual_content_clips |-> post_durations[k]]
       IN  /\ audio_clips_durations' = ds
           /\ overlays' = <<[image |-> Clip("title", 0), from |-> 0, to |-> 0 + ds[1]]>>
           /\ current_time' = 0 + ds[1]
    /\ vi' = 0
    /\ vpc' = IF storymodemethod = 1 THEN "content" ELSE "render"
    /\ UNCHANGED <<videoEnv, actual_content_clips, audio_clips, result_overlays,
                   audio_duration>>
    /\ UNCHANGED <<chunkVars, renderVars, genVars, ttsVars, analyzerVars, threadVars>>

\* OverlayContent timing image i with the duration of index i instead of i + 1
OverlayContentShifted ==
    /\ vpc = "content" /\ vi < actual_content_clips
    /\ overlays' = Append(overlays,
          [image |-> Clip("content_", vi), from |-> current_time,
           to |-> current_time + audio_clips_durations[vi + 1]])
    /\ current_time' = current_time + audio_clips_durations[vi + 1]
    /\ vi' = vi + 1
    /\ UNCHANGED <<videoEnv, actual_content_clips, audio_clips, audio_clips_durations,
                   result_overlays, audio_duration, vpc>>
    /\ UNCHANGED <<chunkVars, renderVars, genVars, ttsVars, analyzerVars, threadVars>>

\* lines 373-385: one iteration of the content image loop (Python index
\* i + 1 of audio_clips_durations is element vi + 2 here)
OverlayContent ==
    /\ vpc = "content" /\ vi < actual_content_clips
    /\ overlays' = Append(overlays,
          [image |-> Clip("content_", vi), from |-> current_time,
           to |-> current_time + audio_clips_durations[vi + 2]])
    /\ current_time' = current_time + audio_clips_durations[vi + 2]
    /\ vi' = vi + 1
    /\ UNCHANGED <<videoEnv, actual_content_clips, audio_clips, audio_clips_durations,
                   result_overlays, audio_duration, vpc>>
    /\ UNCHANGED <<chunkVars, renderVars, genVars, ttsVars, analyzerVars, threadVars>>

\* the content loop is exhausted
OverlayContentDone ==
    /\ vpc = "content" /\ vi = actual_content_clips
    /\ vi' = 0
    /\ vpc' = IF dream_analysis THEN "analysis" ELSE "render"
    /\ UNCHANGED <<videoEnv, actual_content_clips, audio_clips, audio_clips_durations,
                   current_time, overlays, result_overlays, audio_duration>>
    /\ UNCHANGED <<chunkVars, renderVars, genVars, ttsVars, analyzerVars, threadVars>>

\* lines 387-425: one iteration of the analysis image loop
OverlayAnalysis ==
    /\ vpc = "analysis"
    /\ IF vi < analysis_pngs /\ vi < Len(analysis_durations)
       THEN LET analysis_duration == analysis_durations[vi + 1]
            IN  /\ overlays' = Append(overlays,
                      [image |-> Clip("analysis_chunk", vi), from |-> current_time,
                       to |-> current_time + analysis_duration])
                /\ current_time' = current_time + analysis_duration
                /\ vi' = vi + 1
                /\ vpc' = vpc
       ELSE /\ vpc' = "render"
            /\ vi' = 0
            /\ UNCHANGED <<overlays, current_time>>
    /\ UNCHANGED <<videoEnv, actual_content_clips, audio_clips, audio_clips_durations,
                   result_overlays, audio_duration>>
    /\ UNCHANGED <<chunkVars, renderVars, genVars, ttsVars, analyzerVars, threadVars>>

\* lines 515-616: render the basic video with t = sum(audio_clips_durations)
RenderBasic ==
    /\ vpc = "render"
    /\ audio_duration' = Sum(audio_clips_durations)
    /\ current_time' = 0
    /\ vi' = 0
    /\ vpc' = "title2"
    /\ UNCHANGED <<videoEnv, actual_content_clips, audio_clips, audio_clips_durations,
                   overlays, result_overlays>>
    /\ UNCHANGED <<chunkVars, renderVars, genVars, ttsVars, analyzerVars, threadVars>>

\* lines 619-628: enable the title image on result_video, if it exists
SecondOverlayTitle ==
    /\ vpc = "title2"
    /\ IF title_png
       THEN /\ result_overlays' = <<[image |-> Clip("title", 0), from |-> current_time,
                                     to |-> current_time + audio_clips_durations[1]]>>
            /\ current_time' = current_time + audio_clips_durations[1]
       ELSE UNCHANGED <<result_overlays, current_time>>
    /\ vpc' = "content2"
    /\ UNCHANGED <<videoEnv, actual_content_clips, audio_clips, audio_clips_durations,
                   vi, overlays, audio_duration>>
    /\ UNCHANGED <<chunkVars, renderVars, genVars, ttsVars, analyzerVars, threadVars>>

\* lines 630-640: one iteration of the second content image loop
SecondOverlayContent ==
    /\ vpc = "content2" /\ vi < actual_content_clips
    /\ IF vi \in content_pngs
       THEN /\ result_overlays' = Append(result_overlays,
                  [image |-> Clip("content_", vi), from |-> current_time,
                   to |-> current_time + audio_clips_durations[vi + 2]])
            /\ current_time' = current_time + audio_clips_durations[vi + 2]
       ELSE UNCHANGED <<result_overlays, current_time>>
    /\ vi' = vi + 1
    /\ UNCHANGED <<videoEnv, actual_content_clips, audio_clips, audio_clips_durations,
                   overlays, audio_duration, vpc>>
    /\ UNCHANGED <<chunkVars, renderVars, genVars, ttsVars, analyzerVars, threadVars>>

\* lines 642-654: the second loop is exhausted and the video is written
SecondOverlayDone ==
    /\ vpc = "content2" /\ vi = actual_content_clips
    /\ vpc' = "done"
    /\ UNCHANGED <<videoEnv, actual_content_clips, audio_clips, audio_clips_durations,
                   current_time, vi, overlays, result_overlays, audio_duration>>
    /\ UNCHANGED <<chunkVars, renderVars, genVars, ttsVars, analyzerVars, threadVars>>

VideoNext ==
    \/ CountContentClips
    \/ GatherAudio
    \/ OverlayTitle
    \/ OverlayContent
    \/ OverlayContentDone
    \/ OverlayAnalysis
    \/ RenderBasic
    \/ SecondOverlayTitle
    \/ SecondOverlayContent
    \/ SecondOverlayDone

SpecVideo == VideoInit /\ [][VideoNext]_vars

(***************************************************************************)
(* Properties of the overlay timeline                                      *)
(***************************************************************************)
\* the overlays ovs, from position first on, show content_0 .. content_(n-1)
\* back to back from time start, image i for the length of postaudio-i.mp3
ContentChain(ovs, first, start) ==
    \A i \in 0..(actual_content_clips - 1) :
        LET o == ovs[first + i]
        IN  /\ o.image = Clip("content_", i)
            /\ o.from = (IF i = 0 THEN start ELSE ovs[first + i - 1].to)
            /\ o.to - o.from = post_durations[i + 1]

\* no two intervals share more than an end point
NoOverlap(ovs) ==
    \A j \in 1..Len(ovs), k \in 1..Len(ovs) : j < k => ovs[j].to <= ovs[k].from

TitleFirst(ovs) ==
    ovs[1] = [image |-> Clip("title", 0), from |-> 0, to |-> title_duration]

ClipDuration(clip) ==
    IF clip.name = "title" THEN title_duration
    ELSE IF clip.name = "postaudio" THEN postaudio_duration
    ELSE IF clip.name = "postaudio-" THEN post_durations[clip.idx + 1]
    ELSE analysis_durations[clip.idx + 1]

\* the length of audio.mp3, the concatenation of audio_clips (line 317)
AudioLength == Sum([k \in 1..Len(audio_clips) |-> ClipDuration(audio_clips[k])])

\* C23: in make_final_video the sum of audio_clips_durations, which is the
\* length given to the rendered video, equals the total length of the audio
\* clips concatenated into audio.mp3, with storymodemethod 0 and 1 and also
\* when analysis audio chunks are present.
VideoLengthMatchesNarration ==
    vpc \in {"title2", "content2", "done"} =>
        /\ audio_duration = Sum(audio_clips_durations)
        /\ audio_duration = AudioLength

(***************************************************************************)
(* create_text_chunks and generate_dream_images                            *)
(***************************************************************************)
\* text.strip()
Strip(t) ==
    LET keep == { k \in 1..Len(t) : ~IsSpace(t[k]) }
    IN  IF keep = {} THEN <<>>
        ELSE SubSeq(t, CHOOSE k \in keep : \A j \in keep : k <= j,
                       CHOOSE k \in keep : \A j \in keep : k >= j)

IsSentenceEnd(c) == c \in {".", "!", "?"}

RECURSIVE SentencesFrom(_, _)
\* the non-empty pieces of re.split(r'[.!?]+', t) from position k on
SentencesFrom(t, k) ==
    LET starts == { j \in k..Len(t) : ~IsSentenceEnd(t[j]) }
    IN  IF starts = {} THEN <<>>
        ELSE LET start == CHOOSE j \in starts : \A h \in starts : j <= h
                 ends == { j \in start..Len(t) : IsSentenceEnd(t[j]) }
                 stop == IF ends = {} THEN Len(t) + 1
                         ELSE CHOOSE j \in ends : \A h \in ends : j <= h
             IN  <<SubSeq(t, start, stop - 1)>> \o SentencesFrom(t, stop)

RECURSIVE TextChunkLoop(_, _, _, _)
\* the for loop of create_text_chunks: <<chunks, current_chunk>>
TextChunkLoop(sentences, max_chars, acc, current_chunk) ==
    IF sentences = <<>> THEN <<acc, current_chunk>>
    ELSE LET sentence == Strip(Head(sentences))
         IN  IF sentence = <<>>
             THEN TextChunkLoop(Tail(sentences), max_chars, acc, current_chunk)
             ELSE IF Len(current_chunk \o sentence) <= max_chars
                  THEN TextChunkLoop(Tail(sentences), max_chars, acc,
                                     current_chunk \o sentence \o <<".", " ">>)
                  ELSE TextChunkLoop(Tail(sentences), max_chars,
                          IF current_chunk # <<>> THEN Append(acc, Strip(current_chunk))
                          ELSE acc,
                          sentence \o <<".", " ">>)

create_text_chunks(t, max_chars_per_chunk) ==
    IF Len(t) <= max_chars_per_chunk THEN <<t>>
    ELSE LET r == TextChunkLoop(SentencesFrom(t, 1), max_chars_per_chunk, <<>>, <<>>)
         IN  IF r[2] # <<>> THEN Append(r[1], Strip(r[2])) ELSE r[1]

\* n times the character c
Rep(c, n) == [k \in 1..n |-> c]

\* "No dream content found."
NoDreamContent ==
    <<"N", "o", " ", "d", "r", "e", "a", "m", " ", "c", "o", "n", "t", "e", "n", "t",
      " ", "f", "o", "u", "n", "d", ".">>

\* thread_post values: a string is the list of that one string
GenPosts ==
    { <<>>, << <<>> >>, << <<" ">> >>, << <<" ", "\n", " ">> >>,
      << <<"a", "b">> >>, << <<"a", ".", " ", "b">> >>,
      << <<"a">>, <<>> >>, << <<"a", "b", ".">>, <<"b", "!">> >>,
      << Rep("a", 251) >>, << Rep("a", 300) >>,
      << Rep("a", 200) \o <<".", " ">> \o Rep("b", 100) \o <<".">> >>,
      << Rep("a", 120) \o <<"?", " ">>, Rep("b", 120) \o <<".">>, Rep("a", 30) >>,
      [k \in 1..7 |-> Rep("a", 130) \o <<".">>] }

\* thread_post values of create_dream_content_images: also texts of more
\* than 500 characters
DreamPosts ==
    GenPosts
    \cup { << Rep("a", 501) >>, << Rep(".", 501) >>,
           << Rep("a", 260) \o <<".", " ">> \o Rep("b", 260) \o <<"!", "?">>
              \o Rep("a", 260) >>,
           [k \in 1..5 |-> Rep("b", 249) \o <<".">>] }

GenInit ==
    /\ ChunkIdle
    /\ RenderIdle
    /\ VideoIdle
    /\ TtsIdle
    /\ AnalyzerIdle
    /\ ThreadsIdle
    /\ thread_title \in { <<"a", "b">>, <<"a", " ", "b">> }
    /\ \/ /\ gop = "generate_dream_images"
          /\ thread_post \in GenPosts
          /\ storymode_max_length \in {280, 1000}
          /\ gpc = "title"
       \/ /\ gop = "create_dream_content_images"
          /\ thread_post \in DreamPosts
          /\ storymode_max_length = 1000
          /\ gpc = "text"
    /\ post_content = <<>> /\ text_chunks = <<>> /\ chunks_bound = FALSE
    /\ gi = 0 /\ saved = <<>> /\ reported = -1 /\ image_paths = <<>>

\* lines 294-303: create_clean_title_image saves title.png
GenTitleImage ==
    /\ gop = "generate_dream_images"
    /\ gpc = "title"
    /\ saved' = Append(saved, [file |-> Clip("title", 0),
                               lines |-> TextwrapWrap(thread_title, 25)])
    /\ gpc' = "chunk"
    /\ UNCHANGED <<genArgs, post_content, text_chunks, chunks_bound, gi, reported, image_paths>>
    /\ UNCHANGED <<chunkVars, renderVars, videoVars, ttsVars, analyzerVars, threadVars>>

\* lines 308-318: the post content, cut to storymode_max_length, is chunked
\* only when it is not empty
GenChunk ==
    /\ gop = "generate_dream_images"
    /\ gpc = "chunk"
    /\ LET joined == Join(<<"\n", "\n">>, thread_post)
           limited == IF Len(joined) > storymode_max_length
                      THEN SubSeq(joined, 1, storymode_max_length) \o <<".", ".", ".">>
                      ELSE joined
       IN  /\ post_content' = limited
           /\ IF limited # <<>>
              THEN /\ text_chunks' = create_text_chunks(limited, 250)
                   /\ chunks_bound' = TRUE
                   /\ gpc' = "images"
              ELSE /\ UNCHANGED <<text_chunks, chunks_bound>>
                   /\ gpc' = "report"
    /\ gi' = 0
    /\ UNCHANGED <<genArgs, saved, reported, image_paths>>
    /\ UNCHANGED <<chunkVars, renderVars, videoVars, ttsVars, analyzerVars, threadVars>>

\* lines 320-323: one iteration of the image loop; create_clean_content_image
\* saves content_i.png
GenContentImage ==
    /\ gop = "generate_dream_images"
    /\ gpc = "images" /\ gi < Len(text_chunks)
    /\ saved' = Append(saved, [file |-> Clip("content_", gi),
                               lines |-> TextwrapWrap(text_chunks[gi + 1], 30)])
    /\ IF gi >= 5
       THEN gpc' = "report" /\ gi' = gi
       ELSE gpc' = gpc /\ gi' = gi + 1
    /\ UNCHANGED <<genArgs, post_content, text_chunks, chunks_bound, reported, image_paths>>
    /\ UNCHANGED <<chunkVars, renderVars, videoVars, ttsVars, analyzerVars, threadVars>>

\* the image loop is exhausted
GenImagesDone ==
    /\ gop = "generate_dream_images"
    /\ gpc = "images" /\ gi = Len(text_chunks)
    /\ gpc' = "report"
    /\ UNCHANGED <<genArgs, post_content, text_chunks, chunks_bound, gi, saved, reported, image_paths>>
    /\ UNCHANGED <<chunkVars, renderVars, videoVars, ttsVars, analyzerVars, threadVars>>

\* line 325: min(len(chunks), 5) is printed; reading the local chunks raises
\* UnboundLocalError when it was never assigned
GenReport ==
    /\ gop = "generate_dream_images"
    /\ gpc = "report"
    /\ IF chunks_bound
       THEN reported' = Min(Len(text_chunks), 5) /\ gpc' = "done"
       ELSE reported' = reported /\ gpc' = "raised"
    /\ UNCHANGED <<genArgs, post_content, text_chunks, chunks_bound, gi, saved, image_paths>>
    /\ UNCHANGED <<chunkVars, renderVars, videoVars, ttsVars, analyzerVars, threadVars>>

\* what process_text(dream_text, False) can return: TTS/engine_wrapper.py
\* is outside these sources, so its result is the text itself or any other
\* text
ProcessTextResults(t) ==
    {t} \cup { <<>>, <<"a", ".">>, Rep("a", 300) \o <<".", " ">> \o Rep("b", 300) }

\* lines 114-167: the dream text is the post (a list is joined with
\* spaces), or the fixed sentence when the post is empty and there is no
\* comment; it is chunked by sentences into chunks of at most 500 characters
DreamContentText ==
    /\ gop = "create_dream_content_images" /\ gpc = "text"
    /\ LET post_text == IF Join(<<>>, thread_post) # <<>> \/ Len(thread_post) > 1
                        THEN Join(<<" ">>, thread_post)
                        ELSE NoDreamContent
       IN  \E processed \in ProcessTextResults(post_text) :
              /\ post_content' = processed
              /\ text_chunks' = create_text_chunks(processed, 500)
    /\ chunks_bound' = TRUE
    /\ gi' = 0
    /\ gpc' = "images"
    /\ UNCHANGED <<genArgs, saved, reported, image_paths>>
    /\ UNCHANGED <<chunkVars, renderVars, videoVars, ttsVars, analyzerVars, threadVars>>

\* DreamContentImage naming every file content_0.png
DreamContentImageSameName ==
    /\ gop = "create_dream_content_images" /\ gpc = "images"
    /\ gi < Len(text_chunks)
    /\ saved' = Append(saved, [file |-> Clip("content_", 0),
                               lines |-> TextwrapWrap(text_chunks[gi + 1], 30)])
    /\ image_paths' = Append(image_paths, Clip("content_", 0))
    /\ gi' = gi + 1
    /\ UNCHANGED <<genArgs, post_content, text_chunks, chunks_bound, reported, gpc>>
    /\ UNCHANGED <<chunkVars, renderVars, videoVars, ttsVars, analyzerVars, threadVars>>

\* lines 171-181: one iteration of the loop over the chunks: the text is
\* drawn, content_idx.png is saved and its path appended
DreamContentImage ==
    /\ gop = "create_dream_content_images" /\ gpc = "images"
    /\ gi < Len(text_chunks)
    /\ saved' = Append(saved, [file |-> Clip("content_", gi),
                               lines |-> TextwrapWrap(text_chunks[gi + 1], 30)])
    /\ image_paths' = Append(image_paths, Clip("content_", gi))
    /\ gi' = gi + 1
    /\ UNCHANGED <<genArgs, post_content, text_chunks, chunks_bound, reported, gpc>>
    /\ UNCHANGED <<chunkVars, renderVars, videoVars, ttsVars, analyzerVars, threadVars>>

\* line 183: return image_paths
DreamContentReturn ==
    /\ gop = "create_dream_content_images" /\ gpc = "images"
    /\ gi = Len(text_chunks)
    /\ gpc' = "returned"
    /\ UNCHANGED <<genArgs, post_content, text_chunks, chunks_bound, gi, saved,
                   reported, image_paths>>
    /\ UNCHANGED <<chunkVars, renderVars, videoVars, ttsVars, analyzerVars, threadVars>>

GenNext ==
    \/ GenTitleImage
    \/ GenChunk
    \/ GenContentImage
    \/ GenImagesDone
    \/ GenReport
    \/ DreamContentText
    \/ DreamContentImage
    \/ DreamContentReturn

SpecGen == GenInit /\ [][GenNext]_vars

(***************************************************************************)
(* Properties of generate_dream_images                                     *)
(***************************************************************************)
ContentImages == SelectSeq(saved, LAMBDA im : im.file.name = "content_")

\* the post text is empty, all whitespace or a single token
DegeneratePost ==
    LET joined == Join(<<"\n", "\n">>, thread_post)
    IN  Len(Split(joined)) <= 1

\* C7 - degenerate inputs never throw: for a post text that is empty, all
\* whitespace or a single giant token generate_dream_images raises no
\* exception, and for an empty text it returns having saved no content image.
DegenerateNeverThrows ==
    /\ DegeneratePost => gpc # "raised"
    /\ Join(<<"\n", "\n">>, thread_post) = <<>> =>
          (ContentImages = <<>> /\ gpc \notin {"raised"})

\* C14 - one image per chunk, named by index: create_dream_content_images
\* returns one path per text chunk, in chunk order, the i-th being
\* content_i.png, all distinct, and every path it holds was saved before.
OneImagePerChunk ==
    gop = "create_dream_content_images" =>
        /\ \A k \in 1..Len(image_paths) :
              /\ image_paths[k] = Clip("content_", k - 1)
              /\ Len(saved) >= k /\ saved[k].file = image_paths[k]
              /\ saved[k].lines = TextwrapWrap(text_chunks[k], 30)
              /\ \A j \in 1..Len(image_paths) : image_paths[j] = image_paths[k] => j = k
        /\ gpc = "returned" => Len(image_paths) = Len(text_chunks)

\* create_dream_content_images returned the paths of several chunks
OneImagePerChunkWitness ==
    /\ gop = "create_dream_content_images" /\ gpc = "returned"
    /\ Len(text_chunks) >= 3
    /\ Len(image_paths) = Len(text_chunks)

\* C24: generate_dream_images creates at most 5 content images, content_0
\* to content_4, however many chunks the post text yields, and the count it
\* reports is the number of content images it created.
ContentImageLimit ==
    gop = "generate_dream_images" =>
        /\ Len(ContentImages) <= 5
        /\ \A k \in 1..Len(ContentImages) : ContentImages[k].file.idx <= 4
        /\ gpc = "done" => reported = Len(ContentImages)

(***************************************************************************)
(* ChatterboxTTSEngine.run (TTS/chatterbox.py).  The model library, the    *)
(* sound file library and the file system are the environment: each of     *)
(* their calls succeeds or raises.  A text is its number of characters; a  *)
(* file is a record of what was written to it.                             *)
(***************************************************************************)
\* self.max_chars
max_chars == 2000

AudioExtensions == {".wav", ".mp3", ".flac", ".m4a"}

\* the files that can lie in assets/voices
VoiceDirFiles ==
    { VoiceFile("default", ".mp3"), VoiceFile("custom", ".wav"),
      VoiceFile("other", ".flac"), VoiceFile("notes", ".txt") }

\* the voice arguments tried: a voice name and a voice file
Voices == { VoiceFile("default", ""), VoiceFile("custom", ".wav") }

\* _get_voice_path: the paths it can return; os.listdir gives the files in
\* any order, so "the first available voice file" is any audio file
VoicePaths(voice) ==
    LET named == { e \in AudioExtensions :
                      VoiceFile(voice.stem \o voice.ext, e) \in voice_dir.files }
        first_ext == CHOOSE e \in named :
                        \A o \in named :
                            \/ e = ".wav"
                            \/ e = ".mp3" /\ o # ".wav"
                            \/ e = ".flac" /\ o \notin {".wav", ".mp3"}
                            \/ e = ".m4a" /\ o = ".m4a"
        audio == { f \in voice_dir.files : f.ext \in AudioExtensions }
    IN  IF voice.ext \in AudioExtensions /\ voice_in_cwd
        THEN { [dir |-> ".", file |-> voice] }
        ELSE IF voice.ext \in AudioExtensions /\ voice_dir.exists
                  /\ voice \in voice_dir.files
        THEN { [dir |-> "assets/voices", file |-> voice] }
        ELSE IF voice_dir.exists /\ named # {}
        THEN { [dir |-> "assets/voices",
                file |-> VoiceFile(voice.stem \o voice.ext, first_ext)] }
        ELSE IF voice_dir.exists /\ audio # {}
        THEN { [dir |-> "assets/voices", file |-> f] : f \in audio }
        ELSE { [dir |-> "assets/voices", file |-> VoiceFile("default", ".wav")] }

\* what sf.write leaves at filepath for a generated tensor
SpeechFile(chars, cloned) == [kind |-> "speech", chars |-> chars, cloned |-> cloned]

\* what _create_silence writes: duration * sample_rate zero samples
SilenceFile(duration) == [kind |-> "silence", samples |-> duration * 22050]

\* what open(filepath, 'w').write("") leaves
EmptyFile == [kind |-> "empty"]

(***************************************************************************)
(* Specification of ChatterboxTTSEngine.run                                *)
(***************************************************************************)
TtsInit ==
    /\ ChunkIdle
    /\ RenderIdle
    /\ VideoIdle
    /\ GenIdle
    /\ AnalyzerIdle
    /\ ThreadsIdle
    /\ tts_model \in BOOLEAN
    /\ tts_text \in {0, 40, max_chars, max_chars + 1}
    /\ tts_voice \in Voices
    /\ voice_dir \in { [exists |-> FALSE, files |-> {}] }
                     \cup { [exists |-> TRUE, files |-> fs] : fs \in SUBSET VoiceDirFiles }
    /\ voice_in_cwd \in BOOLEAN
    /\ tts_voice_path = <<>>
    /\ tts_file \in {NoFile, EmptyFile}
    /\ tts_log = <<>>
    /\ tpc = "start"

\* lines 141-142: initialize() loads the model or raises ValueError
TtsInitialize ==
    /\ tpc = "start"
    /\ IF tts_model
       THEN tpc' = "generate" /\ UNCHANGED <<tts_model, tts_log>>
       ELSE \/ /\ tts_model' = TRUE
               /\ tts_log' = Append(tts_log, "initialized")
               /\ tpc' = "generate"
            \/ /\ tts_log' = Append(tts_log, "ValueError")
               /\ tpc' = "raised"
               /\ UNCHANGED tts_model
    /\ UNCHANGED <<tts_text, tts_voice, voice_dir, voice_in_cwd, tts_voice_path, tts_file>>
    /\ UNCHANGED <<chunkVars, renderVars, videoVars, genVars, analyzerVars, threadVars>>

\* TtsGenerate letting a generation error leave run
TtsGenerateUncaught ==
    /\ tpc = "generate"
    /\ tts_text' = IF tts_text > max_chars THEN max_chars ELSE tts_text
    /\ \E voice_path \in VoicePaths(tts_voice) :
          /\ tts_voice_path' = voice_path
          /\ \/ /\ tts_file' = SpeechFile(tts_text', TRUE)
                /\ tts_log' = Append(tts_log, "saved")
                /\ tpc' = "returned"
             \/ /\ tts_log' = Append(tts_log, "aifc error")
                /\ tpc' = "fallback"
                /\ UNCHANGED tts_file
             \/ /\ tts_log' = Append(tts_log, "generation error")
                /\ tpc' = "raised"
                /\ UNCHANGED tts_file
    /\ UNCHANGED <<tts_model, tts_voice, voice_dir, voice_in_cwd>>
    /\ UNCHANGED <<chunkVars, renderVars, videoVars, genVars, analyzerVars, threadVars>>

\* lines 144-186: the text is cut to max_chars, the voice file is chosen,
\* the audio is generated with voice cloning and written to filepath
TtsGenerate ==
    /\ tpc = "generate"
    /\ tts_text' = IF tts_text > max_chars THEN max_chars ELSE tts_text
    /\ \E voice_path \in VoicePaths(tts_voice) :
          /\ tts_voice_path' = voice_path
          /\ \/ /\ tts_file' = SpeechFile(tts_text', TRUE)
                /\ tts_log' = Append(tts_log, "saved")
                /\ tpc' = "returned"
             \/ /\ tts_log' = Append(tts_log, "aifc error")
                /\ tpc' = "fallback"
                /\ UNCHANGED tts_file
             \/ /\ tts_log' = Append(tts_log, "generation error")
                /\ tpc' = "silence"
                /\ UNCHANGED tts_file
    /\ UNCHANGED <<tts_model, tts_voice, voice_dir, voice_in_cwd>>
    /\ UNCHANGED <<chunkVars, renderVars, videoVars, genVars, analyzerVars, threadVars>>

\* lines 187-220: after an error that names aifc the audio is generated
\* again without voice cloning
TtsFallback ==
    /\ tpc = "fallback"
    /\ \/ /\ tts_file' = SpeechFile(tts_text, FALSE)
          /\ tts_log' = Append(tts_log, "saved without voice cloning")
          /\ tpc' = "returned"
       \/ /\ tts_log' = Append(tts_log, "fallback error")
          /\ tpc' = "silence"
          /\ UNCHANGED tts_file
    /\ UNCHANGED <<tts_model, tts_text, tts_voice, voice_dir, voice_in_cwd, tts_voice_path>>
    /\ UNCHANGED <<chunkVars, renderVars, videoVars, genVars, analyzerVars, threadVars>>

\* TtsSilence leaving filepath alone when the silence cannot be written
TtsSilenceNoLastResort ==
    /\ tpc = "silence"
    /\ \/ /\ tts_file' = SilenceFile(2)
          /\ tts_log' = Append(tts_log, "silence")
       \/ /\ tts_log' = Append(tts_log, "silence error")
          /\ UNCHANGED tts_file
    /\ tpc' = "returned"
    /\ UNCHANGED <<tts_model, tts_text, tts_voice, voice_dir, voice_in_cwd, tts_voice_path>>
    /\ UNCHANGED <<chunkVars, renderVars, videoVars, genVars, analyzerVars, threadVars>>

\* lines 228-229 and 260-277: _create_silence(filepath, duration=2.0) writes
\* 2 seconds of silence; when that raises it writes an empty file, and when
\* the file cannot be opened either the error leaves run
TtsSilence ==
    /\ tpc = "silence"
    /\ \/ /\ tts_file' = SilenceFile(2)
          /\ tts_log' = Append(tts_log, "silence")
          /\ tpc' = "returned"
       \/ /\ tts_file' = EmptyFile
          /\ tts_log' = Append(tts_log, "silence error")
          /\ tpc' = "returned"
       \/ /\ tts_log' = Append(tts_log, "OSError")
          /\ tpc' = "raised"
          /\ UNCHANGED tts_file
    /\ UNCHANGED <<tts_model, tts_text, tts_voice, voice_dir, voice_in_cwd, tts_voice_path>>
    /\ UNCHANGED <<chunkVars, renderVars, videoVars, genVars, analyzerVars, threadVars>>

TtsNext ==
    \/ TtsInitialize
    \/ TtsGenerate
    \/ TtsFallback
    \/ TtsSilence

SpecTts == TtsInit /\ [][TtsNext]_vars

(***************************************************************************)
(* Properties of ChatterboxTTSEngine.run                                   *)
(***************************************************************************)
\* the last thing run did
LastLog == IF tts_log = <<>> THEN "" ELSE tts_log[Len(tts_log)]

CaughtTtsErrors == {"aifc error", "generation error", "fallback error"}

\* C26 as claimed - Chatterbox run never raises: no exception leaves
\* ChatterboxTTSEngine.run, whatever fails.
TtsNeverRaisesOriginal == tpc # "raised"

\* C26 as amended - a failure of the voice lookup, of the generation or of
\* the saving never leaves run: it ends in _create_silence, which writes the
\* silence or, failing that, an empty file.  An exception leaves run only
\* when the lazy initialisation of the model fails (ValueError, before
\* anything else is done) or when _create_silence cannot open the file for
\* its last resort.
TtsNeverRaisesAmended ==
    /\ tpc = "raised" =>
          \/ tts_log = <<"ValueError">> /\ ~tts_model
          \/ /\ LastLog = "OSError"
             /\ Len(tts_log) >= 2
             /\ tts_log[Len(tts_log) - 1] \in {"generation error", "fallback error"}
    /\ (tpc = "returned" /\ \E k \in 1..Len(tts_log) :
                               tts_log[k] \in {"generation error", "fallback error"})
          => tts_file \in {SilenceFile(2), EmptyFile}
    /\ (LastLog \in CaughtTtsErrors) => tpc \in {"fallback", "silence"}

\* the model was initialised by run itself, the generation failed and run
\* returned with the silence written
TtsNeverRaisesWitness ==
    /\ tpc = "returned"
    /\ tts_log = <<"initialized", "generation error", "silence">>
    /\ tts_file = SilenceFile(2)

(***************************************************************************)
(* DreamAnalyzer (utils/dream_analysis.py).  The Supabase service, the     *)
(* clock and the cache directory are the environment.  A cache key is the  *)
(* string md5 is computed from (md5 is taken to be injective).  A JSON     *)
(* object sent by the service is a record of the fields the code reads.    *)
(***************************************************************************)
\* the title "Dream Analysis" after the 4 characters the source file holds
\* for its emoji; each of these characters is written "*"
TitleAnalysis ==
    <<"*", "*", "*", "*", " ", "D", "r", "e", "a", "m", " ", "A", "n", "a", "l", "y", "s",
      "i", "s">>

\* "Symbolic Meanings" after 4 emoji characters
TitleSymbols ==
    <<"*", "*", "*", "*", " ", "S", "y", "m", "b", "o", "l", "i", "c", " ", "M", "e", "a",
      "n", "i", "n", "g", "s">>

\* "Emotional Analysis" after 4 emoji characters
TitleEmotions ==
    <<"*", "*", "*", "*", " ", "E", "m", "o", "t", "i", "o", "n", "a", "l", " ", "A", "n",
      "a", "l", "y", "s", "i", "s">>

\* "Dream Interpretation" after 3 emoji characters
TitleInterpretation ==
    <<"*", "*", "*", " ", "D", "r", "e", "a", "m", " ", "I", "n", "t", "e", "r", "p",
      "r", "e", "t", "a", "t", "i", "o", "n">>

\* the start of symbols_text
SymbolsPrefix ==
    <<"K", "e", "y", " ", "s", "y", "m", "b", "o", "l", "s", " ", "i", "n",
      " ", "y", "o", "u", "r", " ", "d", "r", "e", "a", "m", " ", "i", "n",
      "c", "l", "u", "d", "e", ":", " ">>

\* the start of emotions_text
EmotionsPrefix ==
    <<"E", "m", "o", "t", "i", "o", "n", "a", "l", " ", "t", "h", "e", "m",
      "e", "s", " ", "p", "r", "e", "s", "e", "n", "t", ":", " ">>

\* str(True), str(False)
BoolStr(b) == IF b THEN <<"T", "r", "u", "e">> ELSE <<"F", "a", "l", "s", "e">>

\* DreamAnalyzer.__init__: the settings with the URL and the key stripped
DreamAnalyzer(config) ==
    [enabled |-> config.enabled,
     supabase_url |-> Strip(config.supabase_url),
     supabase_key |-> Strip(config.supabase_key),
     cache_enabled |-> config.cache_analysis,
     include_symbols |-> config.include_symbols,
     include_emotions |-> config.include_emotions,
     include_meanings |-> config.include_meanings,
     max_length |-> config.max_analysis_length]

is_configured ==
    /\ analyzer.enabled
    /\ analyzer.supabase_url # <<>>
    /\ analyzer.supabase_key # <<>>

_generate_cache_key(t) ==
    [md5 |-> t \o <<"_">> \o BoolStr(analyzer.include_symbols)
               \o <<"_">> \o BoolStr(analyzer.include_emotions)
               \o <<"_">> \o BoolStr(analyzer.include_meanings)]

\* the file CACHE_DIR / f"{cache_key}.json", if any
CacheFiles(key) == { f \in cache_dir : f.key = key }

\* a cache file json.dump wrote: an object with timestamp and analysis
ValidEntry(timestamp, analysis) ==
    [kind |-> "object", has_timestamp |-> TRUE, timestamp |-> timestamp,
     analysis |-> analysis]

\* cache_age = time.time() - cached_data.get("timestamp", 0)
CacheAge(entry) == now - (IF entry.has_timestamp THEN entry.timestamp ELSE 0)

\* s[:n] of Python for any integer n
SliceTo(s, n) ==
    IF n >= 0 THEN SubSeq(s, 1, Min(n, Len(s)))
    ELSE SubSeq(s, 1, Max(Len(s) + n, 0))

\* f"{section['title']}: {section['content']}"
SectionText(section) == section.title \o <<":", " ">> \o section.content

RECURSIVE SumSectionLen(_)
\* sum(len(f"{s['title']}: {s['content']} ") for s in sections)
SumSectionLen(sections) ==
    IF sections = <<>> THEN 0
    ELSE Len(SectionText(Head(sections))) + 1 + SumSectionLen(Tail(sections))

\* lines 358-394: the sections made from the analysis
FormatSections(analysis) ==
    LET symbols_section ==
            IF analyzer.include_symbols /\ analysis.symbols # <<>>
            THEN << [type |-> "symbols", title |-> TitleSymbols,
                     content |-> SymbolsPrefix \o Join(<<",", " ">>, analysis.symbols)] >>
            ELSE <<>>
        emotions_section ==
            IF analyzer.include_emotions /\ analysis.emotions # <<>>
            THEN << [type |-> "emotions", title |-> TitleEmotions,
                     content |-> EmotionsPrefix \o Join(<<",", " ">>, analysis.emotions)] >>
            ELSE <<>>
        interpretation_section ==
            IF analyzer.include_meanings /\ Strip(analysis.interpretation) # <<>>
            THEN << [type |-> "interpretation", title |-> TitleInterpretation,
                     content |-> Strip(analysis.interpretation)] >>
            ELSE <<>>
        sections == symbols_section \o emotions_section \o interpretation_section
    IN  IF sections = <<>> /\ analysis.interpretation # <<>>
        THEN << [type |-> "general", title |-> TitleAnalysis,
                 content |-> analysis.interpretation] >>
        ELSE sections

\* lines 403-417: the full text cut to max_length and the content of the
\* last section cut accordingly
TruncateSections(sections, max_length) ==
    LET n == Len(sections)
        remaining_length == max_length - SumSectionLen(SubSeq(sections, 1, n - 1))
        title_length == Len(sections[n].title) + 2
        max_content_length == remaining_length - title_length - 3
    IN  IF n > 0 /\ remaining_length > 0 /\ max_content_length > 0
        THEN [k \in 1..n |->
                IF k = n
                THEN [sections[n] EXCEPT
                        !.content = SliceTo(sections[n].content, max_content_length)
                                        \o <<".", ".", ".">>]
                ELSE sections[k]]
        ELSE sections

\* _format_analysis_for_video; "error" when analysis.get fails because
\* "analysis" does not hold an object
_format_analysis_for_video(analysis_data) ==
    IF analysis_data.wrapped /\ ~analysis_data.inner_dict
    THEN [kind |-> "error", sections |-> <<>>, full_text |-> <<>>]
    ELSE LET sections == FormatSections(analysis_data)
             full_text == Join(<<" ">>, [k \in 1..Len(sections) |-> SectionText(sections[k])])
         IN  IF Len(full_text) > analyzer.max_length
             THEN [kind |-> "formatted",
                   sections |-> TruncateSections(sections, analyzer.max_length),
                   full_text |-> SliceTo(full_text, analyzer.max_length - 3)
                                    \o <<".", ".", ".">>]
             ELSE [kind |-> "formatted", sections |-> sections, full_text |-> full_text]

(***************************************************************************)
(* Specification of DreamAnalyzer.analyze_dream                            *)
(***************************************************************************)
\* time.time() when the model starts, in seconds
StartTime == 100000

\* the instants at which analyze_dream is called
TimePoints == {StartTime, StartTime + 86399, StartTime + 86400}

\* the dream texts given to analyze_dream: empty, 49 characters once
\* stripped, 50 characters, and the same 50 characters between blanks
DreamTexts ==
    { <<>>,
      <<" ">> \o Rep("a", 49) \o <<"\n">>,
      Rep("a", 50),
      <<" ", " ">> \o Rep("a", 50) \o <<" ">> }

\* settings.config["dream_analysis"]
AnalysisConfig(enabled, url, key, cache, meanings, max_length) ==
    [enabled |-> enabled, supabase_url |-> url, supabase_key |-> key,
     cache_analysis |-> cache, include_symbols |-> TRUE,
     include_emotions |-> TRUE, include_meanings |-> meanings,
     max_analysis_length |-> max_length]

AnalysisConfigs ==
    { AnalysisConfig(TRUE, <<"h">>, <<"k">>, cache, meanings, max_length) :
        cache \in BOOLEAN, meanings \in BOOLEAN, max_length \in {800, 60} }
    \cup { AnalysisConfig(FALSE, <<"h">>, <<"k">>, TRUE, TRUE, 800),
           AnalysisConfig(TRUE, <<" ">>, <<"k">>, TRUE, TRUE, 800),
           AnalysisConfig(TRUE, <<>>, <<"k">>, TRUE, TRUE, 800),
           AnalysisConfig(TRUE, <<"h">>, <<" ", "\n">>, TRUE, TRUE, 800) }

\* the JSON objects the edge function answers with
Responses ==
    { NoResponse,
      Response(FALSE, TRUE, TRUE, << <<"k", "e", "y">>, <<"s", "e", "a">> >>,
               << <<"j", "o", "y">> >>, <<" ", "Y", "o", "u", " ", "s", "e", "e", "k", ".", " ">>),
      Response(FALSE, FALSE, TRUE, <<>>, <<>>, <<" ", " ">>),
      Response(FALSE, FALSE, TRUE, <<>>, <<>>, Rep("z", 70)),
      Response(FALSE, TRUE, FALSE, <<>>, <<>>, <<>>) }

\* what the cache directory can hold when the model starts: nothing, or one
\* file for the 50-character text
InitialEntries ==
    { ValidEntry(StartTime - 10, Response(FALSE, FALSE, TRUE, <<>>, <<>>, <<"O", "K">>)),
      ValidEntry(StartTime - 86399, Response(FALSE, FALSE, TRUE, <<>>, <<>>, <<"O", "K">>)),
      ValidEntry(StartTime - 86400, Response(FALSE, FALSE, TRUE, <<>>, <<>>, <<"O", "K">>)),
      [ValidEntry(0, Response(FALSE, FALSE, TRUE, <<>>, <<>>, <<"O", "K">>))
          EXCEPT !.has_timestamp = FALSE],
      CorruptEntry("cut off json"), CorruptEntry("not utf-8"),
      CorruptEntry("json array") }

AnalyzerInit ==
    /\ ChunkIdle
    /\ RenderIdle
    /\ VideoIdle
    /\ GenIdle
    /\ TtsIdle
    /\ ThreadsIdle
    /\ analyzer \in { DreamAnalyzer(config) : config \in AnalysisConfigs }
    /\ now = StartTime
    /\ cache_dir \in { {} } \cup { { [key |-> _generate_cache_key(Rep("a", 50)), file |-> e] } :
                                    e \in InitialEntries }
    /\ cache_before = cache_dir
    /\ arg_text = <<>> /\ dream_text = <<>> /\ lookup = NoLookup /\ requests = <<>>
    /\ analysis_result = NoResponse /\ result = None /\ call_failures = {}
    /\ cache_ops = <<>> /\ calls = 0 /\ succeeded = {} /\ apc = "idle"

\* time passes between two calls
Tick ==
    /\ apc \in {"idle", "returned"}
    /\ now' \in { t \in TimePoints : t > now }
    /\ UNCHANGED <<analyzer, cache_dir, cache_before, arg_text, dream_text, lookup,
                   requests, analysis_result, result, call_failures, cache_ops,
                   calls, succeeded, apc>>
    /\ UNCHANGED <<chunkVars, renderVars, videoVars, genVars, ttsVars, threadVars>>

\* what a call of analyze_dream starts from
BeginCall(t) ==
    /\ apc \in {"idle", "returned"}
    /\ calls < MaxAnalyzeCalls
    /\ calls' = calls + 1
    /\ arg_text' = t
    /\ cache_before' = cache_dir
    /\ lookup' = NoLookup /\ requests' = <<>> /\ analysis_result' = NoResponse
    /\ result' = None /\ call_failures' = {} /\ cache_ops' = <<>>

\* CallAnalyzeDream measuring the text before it is stripped
CallAnalyzeDreamUnstripped ==
    /\ \E t \in DreamTexts :
          /\ BeginCall(t)
          /\ IF ~is_configured
             THEN dream_text' = t /\ apc' = "returned"
             ELSE IF Len(t) < 50
             THEN dream_text' = Strip(t) /\ apc' = "returned"
             ELSE /\ dream_text' = SliceTo(Strip(t), 5000)
                  /\ apc' = "cache"
    /\ UNCHANGED <<analyzer, now, cache_dir, succeeded>>
    /\ UNCHANGED <<chunkVars, renderVars, videoVars, genVars, ttsVars, threadVars>>

\* lines 431-443: analyze_dream(dream_text) returns None when the analysis
\* is not configured or the stripped text has fewer than 50 characters,
\* and cuts the text to 5000 characters
CallAnalyzeDream ==
    /\ \E t \in DreamTexts :
          /\ BeginCall(t)
          /\ IF ~is_configured
             THEN dream_text' = t /\ apc' = "returned"
             ELSE IF Len(Strip(t)) < 50
             THEN dream_text' = Strip(t) /\ apc' = "returned"
             ELSE /\ dream_text' = SliceTo(Strip(t), 5000)
                  /\ apc' = "cache"
    /\ UNCHANGED <<analyzer, now, cache_dir, succeeded>>
    /\ UNCHANGED <<chunkVars, renderVars, videoVars, genVars, ttsVars, threadVars>>

\* cache_file.unlink(): the file is removed, or OSError is raised (and, in
\* the except branch, swallowed) and the file stays
Unlink(key, removed) == IF removed THEN cache_dir \ CacheFiles(key) ELSE cache_dir

\* lines 447-451 and 81-108: the cache key is computed and the cache file,
\* if any, is read.  A fresh entry is returned, an expired one and one that
\* is not JSON are unlinked; any other error of the read leaves
\* _get_cached_analysis and is caught by analyze_dream, which returns None.
CacheLookup ==
    /\ apc = "cache"
    /\ LET key == _generate_cache_key(dream_text)
           files == CacheFiles(key)
           entry == (CHOOSE f \in files : TRUE).file
       IN  IF ~analyzer.cache_enabled
           THEN /\ lookup' = [NoLookup EXCEPT !.outcome = "miss"]
                /\ apc' = "create"
                /\ UNCHANGED <<cache_dir, cache_ops, call_failures, analysis_result>>
           ELSE IF files = {}
           THEN /\ lookup' = [NoLookup EXCEPT !.outcome = "miss"]
                /\ cache_ops' = Append(cache_ops, "exists")
                /\ apc' = "create"
                /\ UNCHANGED <<cache_dir, call_failures, analysis_result>>
           ELSE IF entry.kind = "object" /\ CacheAge(entry) < 86400
           THEN /\ lookup' = [outcome |-> "hit", entry |-> entry, age |-> CacheAge(entry)]
                /\ cache_ops' = Append(cache_ops, "read")
                /\ analysis_result' = entry.analysis
                /\ apc' = IF entry.analysis.empty THEN "create" ELSE "format"
                /\ UNCHANGED <<cache_dir, call_failures>>
           ELSE IF entry.kind = "object"
           THEN /\ lookup' = [outcome |-> "miss", entry |-> entry, age |-> CacheAge(entry)]
                /\ \E removed \in BOOLEAN :
                      /\ cache_dir' = Unlink(key, removed)
                      /\ cache_ops' = cache_ops \o
                            <<"read", IF removed THEN "unlink" ELSE "unlink failed">>
                /\ apc' = "create"
                /\ UNCHANGED <<call_failures, analysis_result>>
           ELSE IF entry.kind = "cut off json"
           THEN /\ lookup' = [outcome |-> "miss", entry |-> entry, age |-> 0]
                /\ \E removed \in BOOLEAN :
                      /\ cache_dir' = Unlink(key, removed)
                      /\ cache_ops' = cache_ops \o
                            <<"read", IF removed THEN "unlink" ELSE "unlink failed">>
                /\ call_failures' = call_failures \cup {"cache read"}
                /\ apc' = "create"
                /\ UNCHANGED analysis_result
           ELSE /\ lookup' = [outcome |-> "raised", entry |-> entry, age |-> 0]
                /\ cache_ops' = Append(cache_ops, "read")
                /\ call_failures' = call_failures \cup {"cache read error"}
                /\ apc' = "returned"
                /\ UNCHANGED <<cache_dir, analysis_result>>
    /\ UNCHANGED <<analyzer, now, cache_before, arg_text, dream_text, requests,
                   result, calls, succeeded>>
    /\ UNCHANGED <<chunkVars, renderVars, videoVars, genVars, ttsVars, threadVars>>

\* a request sent to the service and how it ended
Request(kind, outcome) == [kind |-> kind, outcome |-> outcome]

\* CreateDream going on to the fetch with its own id when the insert failed
CreateDreamAnyway ==
    /\ apc = "create"
    /\ \E outcome \in {"created", "created without id", "http error", "exception"} :
          /\ requests' = Append(requests, Request("create", outcome))
          /\ call_failures' = IF outcome = "created" THEN call_failures
                              ELSE call_failures \cup {"create"}
          /\ apc' = "fetch"
    /\ UNCHANGED <<analyzer, now, cache_dir, cache_before, arg_text, dream_text, lookup,
                   analysis_result, result, cache_ops, calls, succeeded>>
    /\ UNCHANGED <<chunkVars, renderVars, videoVars, genVars, ttsVars, threadVars>>

\* lines 314-318 and 129-199: _create_dream_in_database posts the dream to
\* rest/v1/dreams; without a dream id DreamAnalysisError is raised, which
\* analyze_dream turns into None
CreateDream ==
    /\ apc = "create"
    /\ \E outcome \in {"created", "created without id", "http error", "exception"} :
          /\ requests' = Append(requests, Request("create", outcome))
          /\ IF outcome = "created"
             THEN apc' = "fetch" /\ UNCHANGED call_failures
             ELSE /\ apc' = "returned"
                  /\ call_failures' = call_failures \cup {"create"}
    /\ UNCHANGED <<analyzer, now, cache_dir, cache_before, arg_text, dream_text, lookup,
                   analysis_result, result, cache_ops, calls, succeeded>>
    /\ UNCHANGED <<chunkVars, renderVars, videoVars, genVars, ttsVars, threadVars>>

\* lines 236-239 and 201-229: _get_dream_content gets the description of
\* the dream; without it DreamAnalysisError is raised
FetchDream ==
    /\ apc = "fetch"
    /\ \E outcome \in {"content", "empty description", "no row", "exception"} :
          /\ requests' = Append(requests, Request("fetch", outcome))
          /\ IF outcome = "content"
             THEN apc' = "analyze" /\ UNCHANGED call_failures
             ELSE /\ apc' = "returned"
                  /\ call_failures' = call_failures \cup {"fetch"}
    /\ UNCHANGED <<analyzer, now, cache_dir, cache_before, arg_text, dream_text, lookup,
                   analysis_result, result, cache_ops, calls, succeeded>>
    /\ UNCHANGED <<chunkVars, renderVars, videoVars, genVars, ttsVars, threadVars>>

\* the cache directory after _save_to_cache: the file written, or, on
\* OSError, the directory as it was or the file cut off
SavedDirs(key) ==
    LET others == cache_dir \ CacheFiles(key)
    IN  [written |-> others \cup {[key |-> key, file |-> ValidEntry(now, analysis_result)]},
         failed |-> { cache_dir, others \cup {[key |-> key, file |-> CorruptEntry("cut off json")]} }]

\* AnalyzeExistingDream writing a cache file also when the call failed
AnalyzeExistingDreamSavingFailure ==
    /\ apc = "analyze"
    /\ \/ \E response \in Responses :
             /\ requests' = Append(requests, Request("analyze", "object"))
             /\ analysis_result' = response
             /\ apc' = "save"
             /\ UNCHANGED <<call_failures, cache_dir>>
       \/ \E outcome \in {"not an object", "timeout", "connection error", "http error"} :
             /\ requests' = Append(requests, Request("analyze", outcome))
             /\ call_failures' = call_failures \cup {"analyze"}
             /\ cache_dir' = IF analyzer.cache_enabled
                             THEN SavedDirs(_generate_cache_key(dream_text)).written
                             ELSE cache_dir
             /\ apc' = "returned"
             /\ UNCHANGED analysis_result
    /\ UNCHANGED <<analyzer, now, cache_before, arg_text, dream_text, lookup,
                   result, cache_ops, calls, succeeded>>
    /\ UNCHANGED <<chunkVars, renderVars, videoVars, genVars, ttsVars, threadVars>>

\* lines 241-306: the edge function is called; every failure and every
\* answer that is not a JSON object raises DreamAnalysisError
AnalyzeExistingDream ==
    /\ apc = "analyze"
    /\ \/ \E response \in Responses :
             /\ requests' = Append(requests, Request("analyze", "object"))
             /\ analysis_result' = response
             /\ apc' = "save"
             /\ UNCHANGED call_failures
       \/ \E outcome \in {"not an object", "timeout", "connection error", "http error"} :
             /\ requests' = Append(requests, Request("analyze", outcome))
             /\ call_failures' = call_failures \cup {"analyze"}
             /\ apc' = "returned"
             /\ UNCHANGED analysis_result
    /\ UNCHANGED <<analyzer, now, cache_dir, cache_before, arg_text, dream_text, lookup,
                   result, cache_ops, calls, succeeded>>
    /\ UNCHANGED <<chunkVars, renderVars, videoVars, genVars, ttsVars, threadVars>>

\* SaveToCache letting the OSError of a failed write leave _save_to_cache
SaveToCacheStrict ==
    /\ apc = "save"
    /\ LET key == _generate_cache_key(dream_text)
       IN  IF ~analyzer.cache_enabled
           THEN apc' = "format" /\ UNCHANGED <<cache_dir, cache_ops, call_failures>>
           ELSE \/ /\ cache_dir' = SavedDirs(key).written
                   /\ cache_ops' = Append(cache_ops, "write")
                   /\ apc' = "format"
                   /\ UNCHANGED call_failures
                \/ /\ cache_dir' \in SavedDirs(key).failed
                   /\ cache_ops' = Append(cache_ops, "write")
                   /\ call_failures' = call_failures \cup {"cache write"}
                   /\ apc' = "returned"
    /\ UNCHANGED <<analyzer, now, cache_before, arg_text, dream_text, lookup, requests,
                   analysis_result, result, calls, succeeded>>
    /\ UNCHANGED <<chunkVars, renderVars, videoVars, genVars, ttsVars, threadVars>>

\* lines 457 and 110-127: the answer is written to the cache file with the
\* time; an OSError is printed and swallowed
SaveToCache ==
    /\ apc = "save"
    /\ LET key == _generate_cache_key(dream_text)
       IN  IF ~analyzer.cache_enabled
           THEN UNCHANGED <<cache_dir, cache_ops, call_failures>>
           ELSE \/ /\ cache_dir' = SavedDirs(key).written
                   /\ cache_ops' = Append(cache_ops, "write")
                   /\ UNCHANGED call_failures
                \/ /\ cache_dir' \in SavedDirs(key).failed
                   /\ cache_ops' = Append(cache_ops, "write")
                   /\ call_failures' = call_failures \cup {"cache write"}
    /\ apc' = "format"
    /\ UNCHANGED <<analyzer, now, cache_before, arg_text, dream_text, lookup, requests,
                   analysis_result, result, calls, succeeded>>
    /\ UNCHANGED <<chunkVars, renderVars, videoVars, genVars, ttsVars, threadVars>>

\* lines 451 and 460-470: the cached or the new answer is formatted and
\* returned; an error of the formatting is caught and None is returned
FormatAndReturn ==
    /\ apc = "format"
    /\ LET formatted == _format_analysis_for_video(analysis_result)
       IN  IF formatted.kind = "error"
           THEN /\ result' = None
                /\ call_failures' = call_failures \cup {"format"}
                /\ UNCHANGED succeeded
           ELSE /\ result' = formatted
                /\ succeeded' =
                      IF requests # <<>>
                      THEN succeeded \cup {[key |-> _generate_cache_key(dream_text),
                                            time |-> now, call |-> calls]}
                      ELSE succeeded
                /\ UNCHANGED call_failures
    /\ apc' = "returned"
    /\ UNCHANGED <<analyzer, now, cache_dir, cache_before, arg_text, dream_text, lookup,
                   requests, analysis_result, cache_ops, calls>>
    /\ UNCHANGED <<chunkVars, renderVars, videoVars, genVars, ttsVars, threadVars>>

AnalyzerNext ==
    \/ Tick
    \/ CallAnalyzeDream
    \/ CacheLookup
    \/ CreateDream
    \/ FetchDream
    \/ AnalyzeExistingDream
    \/ SaveToCache
    \/ FormatAndReturn

SpecAnalyzer == AnalyzerInit /\ [][AnalyzerNext]_vars

(***************************************************************************)
(* Properties of DreamAnalyzer.analyze_dream                               *)
(***************************************************************************)
\* the key of the running or last call
CallKey == _generate_cache_key(dream_text)

\* an earlier call for the same text and options returned an analysis it
\* got from the service less than 24 hours ago, and the cache file it wrote
\* was in place when this call began
SucceededBefore ==
    /\ \E s \in succeeded :
          s.key = CallKey /\ s.call < calls /\ now - s.time < 86400
    /\ \E f \in cache_before :
          /\ f.key = CallKey
          /\ f.file.kind = "object" /\ f.file.has_timestamp
          /\ now - f.file.timestamp < 86400

\* C16 - the cache avoids duplicate API calls: with caching enabled, once
\* analyze_dream succeeded for a text, every later call with the same text
\* and options within 24 hours returns a formatted analysis without
\* sending any request, whatever the first answer of the service held.
CacheAvoidsDuplicateCalls ==
    (apc = "returned" /\ analyzer.cache_enabled /\ SucceededBefore) =>
        (requests = <<>> /\ result # None)

\* the text is too short once stripped
TooShort == Len(Strip(arg_text)) < 50

\* the failures after which analyze_dream returns None
FatalFailures == {"cache read error", "create", "fetch", "analyze", "format"}

TwoStepOrdering ==
    /\ Len(requests) <= 3
    /\ \A k \in 1..Len(requests) :
          /\ requests[k].kind = <<"create", "fetch", "analyze">>[k]
          /\ k > 1 => requests[1].outcome = "created"
          /\ k > 2 => requests[2].outcome = "content"

\* a call returned after the dream was created and the fetch gave no
\* content: no analysis request was sent
TwoStepOrderingWitness ==
    /\ apc = "returned"
    /\ Len(requests) = 2
    /\ requests[1].outcome = "created"
    /\ requests[2].outcome = "empty description"

\* C19 - no data leaves when the analysis is off or the text is too short:
\* when the analysis is disabled, the URL or the key is missing, or the
\* stripped text has fewer than 50 characters, analyze_dream returns None
\* without reading or writing the cache and without sending a request.
NoDataLeaves ==
    (apc # "idle" /\ (~analyzer.enabled \/ analyzer.supabase_url = <<>>
                       \/ analyzer.supabase_key = <<>> \/ TooShort)) =>
        /\ apc = "returned"
        /\ result = None
        /\ requests = <<>>
        /\ cache_ops = <<>>
        /\ cache_dir = cache_before

\* a configured analyzer returned for a text of 50 characters or more that
\* has fewer than 50 once stripped, while the cache holds a file
NoDataLeavesWitness ==
    /\ apc = "returned"
    /\ is_configured /\ analyzer.cache_enabled
    /\ Len(arg_text) >= 50 /\ TooShort
    /\ cache_dir # {}

\* C20 - cache expiry: _get_cached_analysis never returns an entry that is
\* 24 hours old or older; such an entry, and any entry that cannot be
\* parsed, is deleted on access (when the file can be removed) and the
\* lookup returns None, so that the service is called.
CacheExpiry ==
    LET entry == lookup.entry
        expired == entry.kind = "object" /\ lookup.age >= 86400
        unparseable == entry.kind \in {"cut off json", "not utf-8"}
        after_lookup == lookup.outcome # "none" /\ requests = <<>>
                            /\ apc \in {"create", "returned"}
    IN  /\ lookup.outcome = "hit" => lookup.age < 86400
        /\ (after_lookup /\ (expired \/ unparseable)
              /\ \A k \in 1..Len(cache_ops) : cache_ops[k] # "unlink failed") =>
                 /\ lookup.outcome = "miss"
                 /\ apc = "create"
                 /\ CacheFiles(CallKey) = {}

\* the API path of the call failed: dream creation, the fetch or the edge
\* function raised
ApiFailures == {"create", "fetch", "analyze"}

\* a cache file that _get_cached_analysis and analyze_dream serve at `now`
\* (lines 82-83, 92-97 and 450): the cache is enabled, the file is younger
\* than 24 hours and its analysis is not an empty object
Servable(entry) ==
    /\ analyzer.cache_enabled
    /\ entry.kind = "object"
    /\ CacheAge(entry) < 86400
    /\ ~entry.analysis.empty

\* C21: when analyze_dream returns after a failure of its API path (dream
\* creation, fetch or edge function), every file of the cache directory was
\* there, with the same content, when the call began (no file created or
\* modified), and no file for that dream text can be served by a later call.
FailedAnalysisKeepsCache ==
    (apc = "returned" /\ call_failures \cap ApiFailures # {})
        => /\ cache_dir \subseteq cache_before
           /\ \A f \in CacheFiles(CallKey) : ~Servable(f.file)

\* a call with the cache enabled whose edge-function request failed after the
\* lookup had found a file for the text
FailedAnalysisKeepsCacheWitness ==
    /\ apc = "returned"
    /\ analyzer.cache_enabled
    /\ "analyze" \in call_failures
    /\ Len(requests) = 3
    /\ cache_before # {}

\* the sections of a formatted analysis rendered as "title: content" and
\* joined with one space, as lines 397-401 build full_text
JoinedSections(formatted) ==
    Join(<<" ">>, [k \in 1..Len(formatted.sections) |-> SectionText(formatted.sections[k])])

\* C22: every analysis that _format_analysis_for_video returns respects
\* max_analysis_length: its full_text is no longer than the cap, and its
\* sections rendered as "title: content" and joined with spaces are no
\* longer than the cap.
AnalysisLengthCap ==
    (apc = "returned" /\ result.kind = "formatted")
        => /\ Len(result.full_text) <= analyzer.max_length
           /\ Len(JoinedSections(result)) <= analyzer.max_length

(***************************************************************************)
(* get_subreddit_threads (reddit/subreddit.py).  Reddit, the list of       *)
(* videos already made and the analysis service are the environment.  A    *)
(* text is a sequence of characters; thread_post is kept as a list of      *)
(* texts, a plain string being the list of that one text (is_list FALSE).  *)
(***************************************************************************)
\* how many times the selected submission can be found already done
MaxReruns == 2

\* the arguments of one invocation
Frame(post_id, analysis, short) ==
    [POST_ID |-> post_id, use_dream_analysis |-> analysis,
     keep_under_30_seconds |-> short]

\* a top-level comment: a MoreComments object or a comment with its body,
\* what sanitize_text makes of it, and whether it is stickied and still has
\* an author
Comment(more, body, sanitised, stickied, author) ==
    [more |-> more, body |-> body, sanitised |-> sanitised, stickied |-> stickied,
     author |-> author]

Removed == <<"[", "r", "e", "m", "o", "v", "e", "d", "]">>

Deleted == <<"[", "d", "e", "l", "e", "t", "e", "d", "]">>

\* the comment lists of the submissions tried
CommentLists ==
    { <<>>,
      << Comment(FALSE, <<"f", "l", "y">>, <<"f", "l", "y">>, FALSE, TRUE) >>,
      << Comment(TRUE, <<>>, <<>>, FALSE, FALSE),
         Comment(FALSE, Removed, Removed, FALSE, TRUE),
         Comment(FALSE, <<"m", "o", "d">>, <<"m", "o", "d">>, TRUE, TRUE),
         Comment(FALSE, <<" ", " ">>, <<" ">>, FALSE, TRUE),
         Comment(FALSE, <<"f", "a", "l", "l", "s">>, <<"f", "a", "l", "l", "s">>, FALSE, TRUE),
         Comment(FALSE, <<"s", "e", "a">>, <<"s", "e", "a">>, FALSE, FALSE),
         Comment(FALSE, <<"r", "u", "n">>, <<"r", "u", "n">>, FALSE, TRUE) >>,
      << Comment(FALSE, Deleted, Deleted, FALSE, TRUE) >> }

\* the submissions Reddit can give
Submissions ==
    { [found |-> TRUE, selftext |-> t, comments |-> cs] :
        t \in { <<>>, <<" ", "\n">>, <<".", "!">>,
                <<"I", " ", "f", "l", "e", "w", ".", "\n", "U", "p", "!">> },
        cs \in CommentLists }

\* lines 167-193: the comments kept in content["comments"], as their bodies
RECURSIVE KeptComments(_)
KeptComments(cs) ==
    IF cs = <<>> THEN <<>>
    ELSE LET c == Head(cs)
             keep == /\ ~c.more
                     /\ c.body \notin {Removed, Deleted}
                     /\ ~c.stickied
                     /\ c.sanitised # <<>> /\ c.sanitised # <<" ">>
                     /\ Len(c.body) <= thread_settings.max_comment_length
                     /\ Len(c.body) >= thread_settings.min_comment_length
                     /\ c.author
         IN  (IF keep THEN <<c.body>> ELSE <<>>) \o KeptComments(Tail(cs))

\* utils/posttextparser.py lines 19-29, the splitter used without spaCy:
\* newlines become spaces, the text is split at runs of . ! ? and every
\* non-blank piece is stripped and ended with "."
posttextparser(obj) ==
    LET post_text == [k \in 1..Len(obj) |-> IF obj[k] = "\n" THEN " " ELSE obj[k]]
        sentences == SelectSeq(SentencesFrom(post_text, 1), LAMBDA t : Strip(t) # <<>>)
    IN  [k \in 1..Len(sentences) |-> Strip(sentences[k]) \o <<".">>]

\* settings.config["settings"]["storymode"] taken as a condition: the
\* string "false" is true
StorymodeOn == thread_settings.storymode # "False"

\* the innermost invocation
Top == frames[Len(frames)]

ThreadSettings ==
    [post_id : { <<>>, <<"abc">>, <<"abc", "def">> },
     storymode : {"True", "False", "'false'"},
     storymodemethod : {0, 1},
     include_in_title : BOOLEAN,
     ai_similarity_enabled : BOOLEAN,
     max_comment_length : {4},
     min_comment_length : {1}]

ThreadsInit ==
    /\ ChunkIdle
    /\ RenderIdle
    /\ VideoIdle
    /\ GenIdle
    /\ TtsIdle
    /\ AnalyzerIdle
    /\ thread_settings \in ThreadSettings
    /\ DREAM_ANALYSIS_AVAILABLE \in BOOLEAN
    /\ AI_AVAILABLE \in BOOLEAN
    /\ frames = <<>> /\ submission = NoSubmission /\ content = NoContent
    /\ thread_log = <<>> /\ spc = "idle"

\* main.py line 80: get_subreddit_threads(POST_ID, use_dream_analysis,
\* keep_under_30_seconds)
CallGetSubredditThreads ==
    /\ spc = "idle"
    /\ \E post_id \in {"", "abc"}, analysis \in BOOLEAN, short \in BOOLEAN :
          frames' = <<Frame(post_id, analysis, short)>>
    /\ spc' = "select"
    /\ UNCHANGED <<thread_settings, DREAM_ANALYSIS_AVAILABLE, AI_AVAILABLE, submission,
                   content, thread_log>>
    /\ UNCHANGED <<chunkVars, renderVars, videoVars, genVars, ttsVars, analyzerVars>>

\* lines 100-122: the submission is the one named by POST_ID or by the
\* settings, or the one get_subreddit_undone finds among the hot threads,
\* which is None when they are all done; with similarity sorting the result
\* is unpacked as a pair, which raises TypeError for None
SelectSubmission ==
    /\ spc = "select"
    /\ content' = NoContent
    /\ IF Top.POST_ID # "" \/ Len(thread_settings.post_id) = 1
       THEN /\ submission' \in Submissions
            /\ spc' = "check"
       ELSE \/ /\ submission' \in Submissions
               /\ spc' = "check"
            \/ /\ Len(frames) <= MaxReruns
               /\ submission' = NoSubmission
               /\ spc' = IF thread_settings.ai_similarity_enabled /\ AI_AVAILABLE
                         THEN "raised" ELSE "check"
    /\ UNCHANGED <<thread_settings, DREAM_ANALYSIS_AVAILABLE, AI_AVAILABLE, frames,
                   thread_log>>
    /\ UNCHANGED <<chunkVars, renderVars, videoVars, genVars, ttsVars, analyzerVars>>

\* lines 124-125: submission is None (already done): the function calls
\* itself as get_subreddit_threads(POST_ID), the other two parameters
\* taking their defaults, and returns what that call returns
Rerun ==
    /\ spc = "check"
    /\ ~submission.found
    /\ frames' = Append(frames, Frame(Top.POST_ID, FALSE, FALSE))
    /\ spc' = "select"
    /\ UNCHANGED <<thread_settings, DREAM_ANALYSIS_AVAILABLE, AI_AVAILABLE, submission,
                   content, thread_log>>
    /\ UNCHANGED <<chunkVars, renderVars, videoVars, genVars, ttsVars, analyzerVars>>

\* lines 127-195: without comments (num_comments is the length of the
\* comment list) and with storymode "false" the program exits; check_done gives the submission back, or None, for which line 133
\* raises AttributeError; else the post text and the comments are gathered
GatherContent ==
    /\ spc = "check"
    /\ submission.found
    /\ IF submission.comments = <<>> /\ thread_settings.storymode = "'false'"
       THEN /\ thread_log' = Append(thread_log, "No comments found. Skipping.")
            /\ spc' = "exit"
            /\ UNCHANGED content
       ELSE \/ /\ spc' = "raised"
               /\ UNCHANGED <<content, thread_log>>
            \/ /\ content' =
                     [NoContent EXCEPT
                        !.is_list = Strip(submission.selftext) # <<>> /\ StorymodeOn
                                    /\ thread_settings.storymodemethod = 1,
                        !.thread_post =
                            IF Strip(submission.selftext) = <<>> THEN <<>>
                            ELSE IF StorymodeOn /\ thread_settings.storymodemethod = 1
                            THEN posttextparser(submission.selftext)
                            ELSE <<submission.selftext>>,
                        !.comments = KeptComments(submission.comments)]
               /\ thread_log' = Append(thread_log, "Received dream content successfully.")
               /\ spc' = "analysis"
    /\ UNCHANGED <<thread_settings, DREAM_ANALYSIS_AVAILABLE, AI_AVAILABLE, frames,
                   submission>>
    /\ UNCHANGED <<chunkVars, renderVars, videoVars, genVars, ttsVars, analyzerVars>>

\* lines 203-211: the text given to the analysis
dream_content ==
    IF content.thread_post # <<>>
    THEN IF content.is_list THEN Join(<<" ">>, content.thread_post)
         ELSE content.thread_post[1]
    ELSE IF content.comments # <<>> THEN content.comments[1]
    ELSE <<>>

\* lines 197-240: when the caller asked for it and the module is there, the
\* post (or the first comment) is analysed; analyze_dream_content returns
\* the analysis or None, or raises
DreamAnalysisStep ==
    /\ spc = "analysis"
    /\ IF Top.use_dream_analysis /\ DREAM_ANALYSIS_AVAILABLE
       THEN IF Strip(dream_content) # <<>>
            THEN \/ /\ content' =
                          [content EXCEPT
                             !.dream_analysis = "analysis",
                             !.title_suffix = thread_settings.include_in_title]
                    /\ thread_log' = Append(thread_log, "Dream analysis completed successfully")
                 \/ /\ content' = [content EXCEPT !.dream_analysis = "None"]
                    /\ thread_log' = Append(thread_log, "Dream analysis returned empty results")
                 \/ /\ content' = [content EXCEPT !.dream_analysis = "None"]
                    /\ thread_log' = Append(thread_log, "Dream analysis failed")
            ELSE /\ content' = [content EXCEPT !.dream_analysis = "None"]
                 /\ thread_log' = Append(thread_log, "No dream content found for analysis")
       ELSE /\ content' = [content EXCEPT !.dream_analysis = "None"]
            /\ UNCHANGED thread_log
    /\ spc' = "optimize"
    /\ UNCHANGED <<thread_settings, DREAM_ANALYSIS_AVAILABLE, AI_AVAILABLE, frames,
                   submission>>
    /\ UNCHANGED <<chunkVars, renderVars, videoVars, genVars, ttsVars, analyzerVars>>

\* lines 242-251: the 30-second notice is printed when asked for and
\* content is returned, through every invocation on the stack
ReturnContent ==
    /\ spc = "optimize"
    /\ thread_log' = IF Top.keep_under_30_seconds
                     THEN Append(thread_log, "30-second optimization: Feature coming soon!")
                     ELSE thread_log
    /\ spc' = "returned"
    /\ UNCHANGED <<thread_settings, DREAM_ANALYSIS_AVAILABLE, AI_AVAILABLE, frames,
                   submission, content>>
    /\ UNCHANGED <<chunkVars, renderVars, videoVars, genVars, ttsVars, analyzerVars>>

ThreadsNext ==
    \/ CallGetSubredditThreads
    \/ SelectSubmission
    \/ Rerun
    \/ GatherContent
    \/ DreamAnalysisStep
    \/ ReturnContent

SpecThreads == ThreadsInit /\ [][ThreadsNext]_vars

(***************************************************************************)
(* Properties of get_subreddit_threads                                     *)
(***************************************************************************)
\* C25: when get_subreddit_threads finds the selected submission already
\* done and reruns the fetch, the rerun is made with the use_dream_analysis
\* and keep_under_30_seconds values of the original call.
RerunKeepsChoices ==
    \A k \in 1..Len(frames) :
        /\ frames[k].use_dream_analysis = frames[1].use_dream_analysis
        /\ frames[k].keep_under_30_seconds = frames[1].keep_under_30_seconds

====
